---- MODULE Spec2Model ----
(***************************************************************************)
(* PicoUnits: a model of the dimensional quantity engine.                  *)
(*                                                                         *)
(*   Dimension / Unit   picounits/core/dimensions.py, picounits/core/unit.py*)
(*   Packet hierarchy   picounits/core/quantities/...                      *)
(*                                                                         *)
(* Python values are tagged records (field k): numbers, Dimensions, Units, *)
(* Packets and raised exceptions.  An operation that raises yields a       *)
(* record of kind "Raise" in place of a result.                            *)
(***************************************************************************)
EXTENDS Integers, Sequences, FiniteSets, TLC

VARIABLES ua, ub, last, nload, heap, plast

vars == <<ua, ub, last, nload, heap, plast>>
uvars == <<ua, ub, last, nload>>
pvars == <<heap, plast>>

(***************************************************************************)
(* Bounds of the model                                                     *)
(***************************************************************************)
\* largest number of arguments handed to Unit(...)
MaxDims == 2
\* how many results are fed back as operands of later Unit operations
MaxLoads == 2
\* number of Packet objects that are allocated in one run
MaxObjs == 2
\* largest number of elements an ArrayPacket grows to by append
MaxArrayLen == 2

(***************************************************************************)
(* Program constants                                                       *)
(***************************************************************************)
MAX_EXPONENT == 10

(***************************************************************************)
(* Exceptions                                                              *)
(***************************************************************************)
Raise(exc) == [k |-> "Raise", exc |-> exc]

IsRaise(x) == x.k = "Raise"

(***************************************************************************)
(* Python values.  int and float are exact rationals n/d in lowest terms   *)
(* with d > 0 (d = 1 for every int); complex is a pair of rationals.       *)
(***************************************************************************)
None == [k |-> "None"]

Abs(x) == IF x < 0 THEN -x ELSE x

RECURSIVE Gcd(_, _)
Gcd(a, b) == IF b = 0 THEN a ELSE Gcd(b, a % b)

\* the rational num/den in lowest terms, as <<n, d>>
Rat(num, den) ==
    LET g == Gcd(Abs(num), Abs(den))
        s == IF den < 0 THEN -1 ELSE 1
    IN  <<s * (num \div g), s * (den \div g)>>

RAdd(x, y) == Rat(x[1] * y[2] + y[1] * x[2], x[2] * y[2])

RSub(x, y) == Rat(x[1] * y[2] - y[1] * x[2], x[2] * y[2])

RMul(x, y) == Rat(x[1] * y[1], x[2] * y[2])

RDiv(x, y) == Rat(x[1] * y[2], x[2] * y[1])

PyInt(v) == [k |-> "int", n |-> v, d |-> 1]

PyFloat(num, den) == [k |-> "float", n |-> Rat(num, den)[1], d |-> Rat(num, den)[2]]

PyComplex(re, im) == [k |-> "complex", re |-> re, im |-> im]

PyStr(s) == [k |-> "str", s |-> s]

PyList(items) == [k |-> "list", items |-> items]

NdArray(items) == [k |-> "ndarray", items |-> items]

IsReal(x) == x.k \in {"int", "float"}

IsNumber(x) == x.k \in {"int", "float", "complex"}

Re(x) == IF x.k = "complex" THEN x.re ELSE <<x.n, x.d>>

Im(x) == IF x.k = "complex" THEN x.im ELSE <<0, 1>>

\* the number of kind k with real part re and imaginary part im
MkNum(k, re, im) ==
    IF k = "complex" THEN PyComplex(re, im)
    ELSE IF k = "float" THEN [k |-> "float", n |-> re[1], d |-> re[2]]
    ELSE PyInt(re[1])

\* result type of a binary arithmetic operator
JoinKind(a, b) ==
    IF a.k = "complex" \/ b.k = "complex" THEN "complex"
    ELSE IF a.k = "float" \/ b.k = "float" THEN "float"
    ELSE "int"

NumIsZero(x) == Re(x)[1] = 0 /\ Im(x)[1] = 0

NumAdd(a, b) == MkNum(JoinKind(a, b), RAdd(Re(a), Re(b)), RAdd(Im(a), Im(b)))

NumSub(a, b) == MkNum(JoinKind(a, b), RSub(Re(a), Re(b)), RSub(Im(a), Im(b)))

\* int * int -> int, anything with a float -> float, with a complex -> complex
NumMul(a, b) ==
    MkNum(JoinKind(a, b),
          RSub(RMul(Re(a), Re(b)), RMul(Im(a), Im(b))),
          RAdd(RMul(Re(a), Im(b)), RMul(Im(a), Re(b))))

\* a / b of Python 3 for b # 0: never an int
NumTrueDiv(a, b) ==
    LET den == RAdd(RMul(Re(b), Re(b)), RMul(Im(b), Im(b)))
        k == IF JoinKind(a, b) = "complex" THEN "complex" ELSE "float"
    IN  MkNum(k,
              RDiv(RAdd(RMul(Re(a), Re(b)), RMul(Im(a), Im(b))), den),
              RDiv(RSub(RMul(Im(a), Re(b)), RMul(Re(a), Im(b))), den))

\* a ** e for an integer e >= 0, by repeated multiplication
RECURSIVE NumPowNat(_, _)
NumPowNat(a, e) == IF e = 0 THEN PyInt(1) ELSE NumMul(a, NumPowNat(a, e - 1))

\* the largest r >= 0 with r * r <= v
ISqrt(v) == CHOOSE r \in 0..(v + 1) : r * r <= v /\ (r + 1) * (r + 1) > v

\* sqrt of the rational x >= 0, exact when x is a square of a rational and
\* cut to three decimals otherwise
RSqrt(x) ==
    IF ISqrt(x[1]) * ISqrt(x[1]) = x[1] /\ ISqrt(x[2]) * ISqrt(x[2]) = x[2]
    THEN Rat(ISqrt(x[1]), ISqrt(x[2]))
    ELSE Rat(ISqrt((x[1] * 1000000) \div x[2]), 1000)

\* a ** b of Python 3 for a real exponent b: the value, or the exception.
\* A fractional exponent is evaluated for b = 1/2, the only fraction the
\* callers in scalar.py pass besides 1/3.
NumPow(a, b) ==
    IF b.d = 1
    THEN IF b.n >= 0
         THEN MkNum(JoinKind(a, b), Re(NumPowNat(a, b.n)), Im(NumPowNat(a, b.n)))
         ELSE IF NumIsZero(a) THEN Raise("ZeroDivisionError")
         ELSE NumTrueDiv(PyInt(1), NumPowNat(a, -b.n))
    ELSE IF NumIsZero(a)
         THEN IF b.n < 0 THEN Raise("ZeroDivisionError")
              ELSE MkNum(JoinKind(a, b), <<0, 1>>, <<0, 1>>)
    ELSE IF a.k = "complex" THEN PyComplex(RSqrt(Re(a)), <<0, 1>>)
    ELSE IF a.n < 0 THEN PyComplex(<<0, 1>>, RSqrt(<<-a.n, a.d>>))
    ELSE MkNum("float", RSqrt(<<a.n, a.d>>), <<0, 1>>)

(***************************************************************************)
(* FBase and the canonical display order                                   *)
(***************************************************************************)
FBase == {"TIME", "LENGTH", "MASS", "CURRENT", "THERMAL", "AMOUNT",
          "LUMINOSITY", "DIMENSIONLESS"}

SIBases == FBase \ {"DIMENSIONLESS"}

_ORDER == [b \in FBase |->
    CASE b = "MASS" -> 0
      [] b = "LENGTH" -> 1
      [] b = "TIME" -> 2
      [] b = "CURRENT" -> 3
      [] b = "THERMAL" -> 4
      [] b = "AMOUNT" -> 5
      [] b = "LUMINOSITY" -> 6
      [] b = "DIMENSIONLESS" -> 7]

(***************************************************************************)
(* Dimension                                                               *)
(***************************************************************************)
Dim(base, exponent) == [k |-> "Dimension", base |-> base, exponent |-> exponent]

\* a Dimension that keeps an exponent of 0
Dimension_keeping_zero(base, exponent) ==
    IF base \notin FBase THEN Raise("TypeError")
    ELSE IF exponent.k # "int" THEN Raise("TypeError")
    ELSE IF Abs(exponent.n) > MAX_EXPONENT THEN Raise("ValueError")
    ELSE IF base = "DIMENSIONLESS" THEN Dim("DIMENSIONLESS", 1)
    ELSE Dim(base, exponent.n)

\* Dimension.__post_init__: base is a string naming the FBase member, or any
\* other value; exponent is a Python number.
Dimension(base, exponent) ==
    IF base \notin FBase THEN Raise("TypeError")
    ELSE IF exponent.k # "int" THEN Raise("TypeError")
    ELSE IF Abs(exponent.n) > MAX_EXPONENT THEN Raise("ValueError")
    ELSE IF exponent.n = 0 THEN Dim("DIMENSIONLESS", 1)
    ELSE IF base = "DIMENSIONLESS" THEN Dim("DIMENSIONLESS", 1)
    ELSE Dim(base, exponent.n)

Dimension_dimensionless == Dimension("DIMENSIONLESS", PyInt(1))

(***************************************************************************)
(* Unit: the list `dimensions`; the two caches hold derived data only      *)
(***************************************************************************)
MkUnit(dims) == [k |-> "Unit", dimensions |-> dims]

IsUnit(x) == x.k = "Unit"

Unit_length(u) == Len(u.dimensions)

\* Unit._remove_dimensionless
_remove_dimensionless(dims) ==
    IF Len(dims) = 1 THEN dims
    ELSE LET keep(d) == d # Dimension_dimensionless
         IN  SelectSeq(dims, keep)

\* a check that never raises
_duplicated_bases_check_off(dims) == FALSE

\* Unit._duplicated_bases_check: TRUE when the check raises
_duplicated_bases_check(dims) ==
    \E i, j \in 1..Len(dims) : i < j /\ dims[i].base = dims[j].base

\* insertion of d into a list sorted by base.order, after every entry of the
\* same order (list.sort is stable)
RECURSIVE InsertByOrder(_, _)
InsertByOrder(d, s) ==
    IF s = <<>> THEN <<d>>
    ELSE IF _ORDER[d.base] < _ORDER[Head(s).base] THEN <<d>> \o s
    ELSE <<Head(s)>> \o InsertByOrder(d, Tail(s))

\* Unit._sort_order
RECURSIVE _sort_order(_)
_sort_order(dims) ==
    IF dims = <<>> THEN <<>>
    ELSE InsertByOrder(dims[Len(dims)], _sort_order(SubSeq(dims, 1, Len(dims) - 1)))

\* Unit.__init__(*dimensions)
Unit(args) ==
    LET given == IF args = <<>> THEN <<Dimension_dimensionless>> ELSE args
    IN  IF \E i \in 1..Len(given) : given[i].k # "Dimension"
        THEN Raise("ValueError")
        ELSE LET kept == _remove_dimensionless(given)
             IN  IF _duplicated_bases_check(kept) THEN Raise("ValueError")
                 ELSE MkUnit(_sort_order(kept))

\* constants.DIMENSIONLESS
DIMENSIONLESS == Unit(<<Dimension("DIMENSIONLESS", PyInt(1))>>)

\* propagation of an exception out of a list comprehension: the first element
\* whose construction raised, or None
FirstRaise(s) ==
    IF \E i \in 1..Len(s) : IsRaise(s[i])
    THEN s[CHOOSE i \in 1..Len(s) :
               IsRaise(s[i]) /\ \A j \in 1..(i - 1) : ~IsRaise(s[j])]
    ELSE None

\* an update that overwrites the exponent of a base that is present
DictUpdate_overwriting(combined, key, change) ==
    IF \E i \in 1..Len(combined) : combined[i].base = key
    THEN [i \in 1..Len(combined) |->
            IF combined[i].base = key
            THEN [base |-> key, exponent |-> change]
            ELSE combined[i]]
    ELSE Append(combined, [base |-> key, exponent |-> change])

\* the dict `combined` of _dimensional_analysis as a list of entries in
\* insertion order; one iteration of the loop over other.dimensions
DictUpdate(combined, key, change) ==
    IF \E i \in 1..Len(combined) : combined[i].base = key
    THEN [i \in 1..Len(combined) |->
            IF combined[i].base = key
            THEN [base |-> key, exponent |-> combined[i].exponent + change]
            ELSE combined[i]]
    ELSE Append(combined, [base |-> key, exponent |-> change])

RECURSIVE DictMerge(_, _, _)
DictMerge(combined, others, division) ==
    IF others = <<>> THEN combined
    ELSE DictMerge(
            DictUpdate(combined, Head(others).base,
                       Head(others).exponent * (IF division THEN -1 ELSE 1)),
            Tail(others), division)

\* Unit._dimensional_analysis(self, other, division)
_dimensional_analysis(self, other, division) ==
    LET start == [i \in 1..Len(self.dimensions) |->
                    [base |-> self.dimensions[i].base,
                     exponent |-> self.dimensions[i].exponent]]
        combined == DictMerge(start, other.dimensions, division)
        nonzero(e) == e.exponent # 0
        kept == SelectSeq(combined, nonzero)
        new_dimensions == [i \in 1..Len(kept) |->
                              Dimension(kept[i].base, PyInt(kept[i].exponent))]
    IN  IF FirstRaise(new_dimensions) # None THEN FirstRaise(new_dimensions)
        ELSE IF new_dimensions = <<>> THEN Unit(<<>>)
        ELSE Unit(new_dimensions)

\* the Quantity built by the syntactic bridge of Unit.__rmul__
Quantity(value, unit) == [k |-> "Quantity", value |-> value, unit |-> unit]

\* Unit.__rmul__(self, other)
Unit___rmul__(self, other) ==
    IF ~IsReal(other) THEN Raise("ValueError")
    ELSE Quantity(other, self)

\* Unit.__mul__(self, other)
Unit___mul__(self, other) ==
    IF IsUnit(other) THEN _dimensional_analysis(self, other, FALSE)
    ELSE Unit___rmul__(self, other)

\* a division that adds the exponents of other
Unit___truediv___adding(self, other) ==
    IF IsUnit(other) THEN _dimensional_analysis(self, other, FALSE)
    ELSE Raise("ValueError")

\* Unit.__truediv__(self, other)
Unit___truediv__(self, other) ==
    IF IsUnit(other) THEN _dimensional_analysis(self, other, TRUE)
    ELSE Raise("ValueError")

\* Unit.__pow__(self, other)
Unit___pow__(self, other) ==
    IF IsReal(other)
    THEN LET new_dims == [i \in 1..Len(self.dimensions) |->
                Dimension(self.dimensions[i].base,
                          NumMul(PyInt(self.dimensions[i].exponent), other))]
         IN  IF FirstRaise(new_dims) # None THEN FirstRaise(new_dims)
             ELSE Unit(new_dims)
    ELSE Raise("TypeError")

\* a hash that looks at the bases only
Unit___hash___of_bases(self) ==
    {self.dimensions[i].base : i \in 1..Len(self.dimensions)}

\* hash(frozenset(dim_tuples)): a function of the set of (base, exponent)
\* pairs alone, taken here without collisions
Unit___hash__(self) ==
    {<<self.dimensions[i].base, self.dimensions[i].exponent>> :
        i \in 1..Len(self.dimensions)}

\* Unit.__eq__(self, other)
Unit___eq__(self, other) ==
    IF ~IsUnit(other) THEN FALSE
    ELSE IF Unit_length(self) # Unit_length(other) THEN FALSE
    ELSE Unit___hash__(self) = Unit___hash__(other)

(***************************************************************************)
(* PrefixScale                                                             *)
(***************************************************************************)
PrefixScale == [YOTTA |-> 24, ZETTA |-> 21, EXA |-> 18, PETA |-> 15,
                TERA |-> 12, GIGA |-> 9, MEGA |-> 6, KILO |-> 3, HECTO |-> 2,
                DEKA |-> 1, BASE |-> 0, DECI |-> -1, CENTI |-> -2,
                MILLI |-> -3, MICRO |-> -6, NANO |-> -9, PICO |-> -12,
                FEMTO |-> -15, ATTO |-> -18, ZEPTO |-> -21, YOCTO |-> -24]

\* the member of PrefixScale of that name
Prefix(name) == [k |-> "PrefixScale", name |-> name, value |-> PrefixScale[name]]

IsPrefixScale(x) == x.k = "PrefixScale"

\* the members of the enum in the order of their declaration, which is the
\* order of `for member in cls`
_member_names_ ==
    <<"YOTTA", "ZETTA", "EXA", "PETA", "TERA", "GIGA", "MEGA", "KILO", "HECTO",
      "DEKA", "BASE", "DECI", "CENTI", "MILLI", "MICRO", "NANO", "PICO",
      "FEMTO", "ATTO", "ZEPTO", "YOCTO">>

\* float('inf') as the first min_distance: below it is every distance
Inf == -1

\* the loop of from_value from the member at idx on: the closest member
\* and the number of members visited when the loop ends
RECURSIVE from_value_loop(_, _, _, _)
from_value_loop(power, idx, min_distance, closest_member) ==
    IF idx > Len(_member_names_)
    THEN [k |-> "scan", closest_member |-> closest_member, visits |-> idx - 1]
    ELSE LET member == Prefix(_member_names_[idx])
             distance == Abs(member.value - power)
             update == \/ min_distance = Inf
                       \/ distance < min_distance
                       \/ /\ distance = min_distance
                          /\ closest_member # None
                          /\ member.value < closest_member.value
             new_min == IF update THEN distance ELSE min_distance
             new_closest == IF update THEN member ELSE closest_member
         IN  IF distance = 0
             THEN [k |-> "scan", closest_member |-> new_closest, visits |-> idx]
             ELSE from_value_loop(power, idx + 1, new_min, new_closest)

\* a lookup that answers BASE for every power
from_value_scan_base(power) ==
    IF power.k \notin {"int", "bool"} THEN Raise("TypeError")
    ELSE [k |-> "scan", closest_member |-> Prefix("BASE"), visits |-> 1]

\* PrefixScale.from_value(power), with the number of members it visited
from_value_scan(power) ==
    IF power.k \notin {"int", "bool"} THEN Raise("TypeError")
    ELSE LET scan == from_value_loop(power.n, 1, Inf, None)
         IN  IF scan.closest_member = None THEN Raise("ValueError") ELSE scan

\* PrefixScale.from_value(power)
from_value(power) ==
    IF IsRaise(from_value_scan(power)) THEN from_value_scan(power)
    ELSE from_value_scan(power).closest_member

(***************************************************************************)
(* numpy arrays                                                            *)
(***************************************************************************)
\* numpy.array(items) for a list of numbers: one dtype for all elements,
\* complex128 as soon as one element is complex, else float64 as soon as one
\* is a float
array(items) ==
    LET dtype == IF \E i \in 1..Len(items) : items[i].k = "complex" THEN "complex"
                 ELSE IF \E i \in 1..Len(items) : items[i].k = "float" THEN "float"
                 ELSE "int"
    IN  NdArray([i \in 1..Len(items) |-> MkNum(dtype, Re(items[i]), Im(items[i]))])

\* a + b and a - b where an operand may be an ndarray of real numbers: the
\* scalar is broadcast over the elements
PyAdd(a, b) ==
    IF b.k = "ndarray"
    THEN NdArray([i \in 1..Len(b.items) |-> NumAdd(a, b.items[i])])
    ELSE NumAdd(a, b)

PySub(a, b) ==
    IF b.k = "ndarray"
    THEN NdArray([i \in 1..Len(b.items) |-> NumSub(a, b.items[i])])
    ELSE NumSub(a, b)

\* ndarray * factor
ArrayTimes(arr, factor) ==
    NdArray([i \in 1..Len(arr.items) |-> NumMul(arr.items[i], factor)])

(***************************************************************************)
(* Packets: a class, a value and a unit                                    *)
(***************************************************************************)
MkPacket(cls, value, unit) ==
    [k |-> "Packet", cls |-> cls, value |-> value, unit |-> unit]

IsPacket(x) == x.k = "Packet"

\* q.__class__.__bases__[0]
Category(q) ==
    IF q.cls \in {"RealPacket", "ComplexPacket"} THEN "ScalarPacket"
    ELSE "VectorPacket"

\* a construction that leaves the value as it was given
ScaleToBase_unscaled(value, prefix) == value

\* value *= 10 ** (prefix.value - PrefixScale.BASE.value), unless BASE
ScaleToBase(value, prefix) ==
    IF prefix = Prefix("BASE") THEN value
    ELSE NumMul(value, NumPow(PyInt(10), PyInt(prefix.value - PrefixScale["BASE"])))

\* the checks and the scaling shared by RealPacket.__post_init__ and
\* ComplexPacket.__post_init__ once the value has the class's type
ScalarPostInit(cls, value, unit, prefix) ==
    IF ~IsUnit(unit) THEN Raise("TypeError")
    ELSE IF ~IsPrefixScale(prefix) THEN Raise("TypeError")
    ELSE MkPacket(cls, ScaleToBase(value, prefix), unit)

RECURSIVE Factory_create(_, _, _)
RECURSIVE RealPacket(_, _, _)
RECURSIVE ComplexPacket(_, _, _)

\* RealPacket(value, unit, prefix): __post_init__ hands a value that is no
\* int or float to Factory.create and returns, so the object under
\* construction stays as the dataclass __init__ filled it
RealPacket(value, unit, prefix) ==
    IF ~IsReal(value)
    THEN IF IsRaise(Factory_create(value, unit, prefix))
         THEN Factory_create(value, unit, prefix)
         ELSE MkPacket("RealPacket", value, unit)
    ELSE ScalarPostInit("RealPacket", value, unit, prefix)

\* ComplexPacket(value, unit, prefix)
ComplexPacket(value, unit, prefix) ==
    IF value.k # "complex"
    THEN IF IsRaise(Factory_create(value, unit, prefix))
         THEN Factory_create(value, unit, prefix)
         ELSE MkPacket("ComplexPacket", value, unit)
    ELSE ScalarPostInit("ComplexPacket", value, unit, prefix)

\* Factory.create(value, unit, prefix=None)
Factory_create(value, unit, prefix) ==
    LET given == IF prefix = None THEN Prefix("BASE") ELSE prefix
    IN  CASE value.k = "complex" -> ComplexPacket(value, unit, given)
          [] value.k \in {"float", "int"} -> RealPacket(value, unit, given)
          [] OTHER -> Raise("TypeError")

\* Factory(...): the class defines no __init__, a call with arguments raises
Factory(args) == IF args = <<>> THEN [k |-> "Factory"] ELSE Raise("TypeError")

\* Packet.unit_check(self, target): TRUE when it returns, FALSE when it raises
unit_check(self, target) ==
    LET other_unit == IF IsPacket(target) THEN target.unit ELSE target
    IN  Unit___eq__(self.unit, other_unit)

\* one iteration of the loop of ArrayPacket._quantity_conversion
ConvertItem(self_unit, item, factor) ==
    IF IsPacket(item)
    THEN IF ~Unit___eq__(self_unit, item.unit) THEN Raise("ValueError")
         ELSE NumMul(item.value, factor)
    ELSE IF IsReal(item) THEN item
    ELSE Raise("TypeError")

\* ArrayPacket._quantity_conversion(self, factor): the new self.value
_quantity_conversion(value, unit, factor) ==
    LET new_value == [i \in 1..Len(value.items) |->
                         ConvertItem(unit, value.items[i], factor)]
    IN  IF FirstRaise(new_value) # None THEN FirstRaise(new_value)
        ELSE ArrayTimes(array(new_value), factor)

\* ArrayPacket(value, unit, prefix)
ArrayPacket(value, unit, prefix) ==
    IF value.k \notin {"list", "tuple", "ndarray"}
    THEN IF IsRaise(Factory_create(value, unit, prefix))
         THEN Factory_create(value, unit, prefix)
         ELSE MkPacket("ArrayPacket", value, unit)
    ELSE IF ~IsUnit(unit) THEN Raise("TypeError")
    ELSE IF ~IsPrefixScale(prefix) THEN Raise("TypeError")
    ELSE LET factor == IF prefix # Prefix("BASE")
                       THEN NumPow(PyInt(10),
                                   PyInt(prefix.value - PrefixScale["BASE"]))
                       ELSE PyInt(1)
             converted == _quantity_conversion(value, unit, factor)
         IN  IF IsRaise(converted) THEN converted
             ELSE MkPacket("ArrayPacket", converted, unit)

\* the flat list of elements numpy.append sees in an array or a scalar
Flat(value) == IF value.k = "ndarray" THEN value.items ELSE <<value>>

\* ArrayPacket.append(self, item): the exception, or the new self.value
ArrayPacket_append(self, item) ==
    IF ~IsPacket(item) THEN Raise("TypeError")
    ELSE IF item.value.k = "complex" THEN Raise("TypeError")
    ELSE IF ~unit_check(self, item) THEN Raise("ValueError")
    ELSE array(Flat(self.value) \o Flat(item.value))

(***************************************************************************)
(* Scalar arithmetic: scalars/scalar.py and scalars/methods/arithmetic.py  *)
(***************************************************************************)
\* Packet._get_other_packet(other)
_get_other_packet(other) ==
    IF IsUnit(other) THEN Raise("TypeError")
    ELSE IF IsPacket(other) THEN other
    ELSE IF other.k \notin {"str", "bool"} THEN Factory_create(other, Unit(<<>>), None)
    ELSE None

\* add_logic(q1, q2)
add_logic(q1, q2) ==
    IF ~unit_check(q1, q2) THEN Raise("ValueError")
    ELSE Factory_create(PyAdd(q1.value, q2.value), q1.unit, None)

\* sub_logic(q1, q2)
sub_logic(q1, q2) ==
    IF ~unit_check(q1, q2) THEN Raise("ValueError")
    ELSE Factory_create(PySub(q1.value, q2.value), q1.unit, None)

\* a multiplication that keeps the unit of its left operand
multiplication_logic_left_unit(q1, q2) ==
    IF ~IsUnit(q2)
    THEN IF ~IsPacket(q2) THEN Raise("AttributeError")
         ELSE Factory_create(NumMul(q1.value, q2.value), q1.unit, None)
    ELSE Raise("RuntimeError")

\* multiplication_logic(q1, q2)
multiplication_logic(q1, q2) ==
    IF ~IsUnit(q2)
    THEN IF ~IsPacket(q2) THEN Raise("AttributeError")
         ELSE LET new_value == NumMul(q1.value, q2.value)
                  new_unit == Unit___mul__(q1.unit, q2.unit)
              IN  IF IsRaise(new_unit) THEN new_unit
                  ELSE Factory_create(new_value, new_unit, None)
    ELSE IF Unit___eq__(q1.unit, DIMENSIONLESS) THEN Factory_create(q1.value, q2, None)
    ELSE Raise("RuntimeError")

\* a division that answers the dividend when the divisor is zero
true_division_logic_recovering(q1, q2) ==
    IF ~IsPacket(q2) THEN Raise("AttributeError")
    ELSE IF NumIsZero(q2.value) THEN q1
    ELSE LET new_value == NumTrueDiv(q1.value, q2.value)
             new_unit == Unit___truediv__(q1.unit, q2.unit)
         IN  IF IsRaise(new_unit) THEN new_unit
             ELSE Factory_create(new_value, new_unit, None)

\* true_division_logic(q1, q2)
true_division_logic(q1, q2) ==
    IF ~IsPacket(q2) THEN Raise("AttributeError")
    ELSE IF NumIsZero(q2.value) THEN Raise("ValueError")
    ELSE LET new_value == NumTrueDiv(q1.value, q2.value)
             new_unit == Unit___truediv__(q1.unit, q2.unit)
         IN  IF IsRaise(new_unit) THEN new_unit
             ELSE Factory_create(new_value, new_unit, None)

\* a ** b of Python 3 for a complex exponent b: ZeroDivisionError for a zero
\* base unless b is a non-negative real, else a complex number, which no
\* caller gets to read because Unit.__pow__ rejects the complex exponent
ComplexPow(a, b) ==
    IF NumIsZero(a) /\ (Im(b)[1] # 0 \/ Re(b)[1] < 0) THEN Raise("ZeroDivisionError")
    ELSE [k |-> "complex", re |-> <<0, 1>>, im |-> <<0, 1>>, inexact |-> TRUE]

\* power_logic(q1, q2)
power_logic(q1, q2) ==
    IF ~IsPacket(q2) THEN Raise("AttributeError")
    ELSE IF ~Unit___eq__(q2.unit, DIMENSIONLESS) THEN Raise("TypeError")
    ELSE IF NumIsZero(q2.value) THEN Factory(<<PyFloat(1, 1), DIMENSIONLESS>>)
    ELSE LET new_value == IF q2.value.k = "complex"
                          THEN ComplexPow(q1.value, q2.value)
                          ELSE NumPow(q1.value, q2.value)
             new_unit == Unit___pow__(q1.unit, q2.value)
         IN  IF IsRaise(new_value) THEN new_value
             ELSE IF IsRaise(new_unit) THEN new_unit
             ELSE Factory_create(new_value, new_unit, None)

\* the operand q2 of ScalarPacket.__mul__ and __truediv__
BridgeOperand(other) ==
    IF IsUnit(other) THEN Factory_create(PyInt(1), other, None)
    ELSE _get_other_packet(other)

\* ScalarPacket.__add__, __iadd__, __sub__, __isub__, __mul__, __imul__,
\* __truediv__, __itruediv__ and __pow__ on (self, other)
ScalarPacket_op(op, self, other) ==
    LET q2 == IF op \in {"mul", "imul", "truediv", "itruediv"}
              THEN BridgeOperand(other)
              ELSE _get_other_packet(other)
    IN  IF IsRaise(q2) THEN q2
        ELSE CASE op \in {"add", "iadd"} -> add_logic(self, q2)
               [] op \in {"sub", "isub"} -> sub_logic(self, q2)
               [] op \in {"mul", "imul"} -> multiplication_logic(self, q2)
               [] op \in {"truediv", "itruediv"} -> true_division_logic(self, q2)
               [] op = "pow" -> power_logic(self, q2)

(***************************************************************************)
(* Comparisons: scalars/types/real.py, scalars/types/complex.py and        *)
(* vectors/vector.py                                                       *)
(***************************************************************************)
PyBool(v) == [k |-> "bool", v |-> v]

\* x < y for rationals
RLess(x, y) == x[1] * y[2] < y[1] * x[2]

\* a <op> b for two real numbers
RealOrder(op, a, b) ==
    CASE op = "lt" -> RLess(Re(a), Re(b))
      [] op = "le" -> ~RLess(Re(b), Re(a))
      [] op = "gt" -> RLess(Re(b), Re(a))
      [] op = "ge" -> ~RLess(Re(a), Re(b))

\* a <op> b of Python and numpy for a real number a: a complex b cannot be
\* ordered, an ndarray b is compared element by element
PyOrder(op, a, b) ==
    IF b.k = "complex" THEN Raise("TypeError")
    ELSE IF b.k = "ndarray"
    THEN NdArray([i \in 1..Len(b.items) |-> PyBool(RealOrder(op, a, b.items[i]))])
    ELSE PyBool(RealOrder(op, a, b))

\* a == b of Python and numpy for a number a
PyEq(a, b) ==
    IF b.k = "ndarray"
    THEN NdArray([i \in 1..Len(b.items) |->
                     PyBool(Re(a) = Re(b.items[i]) /\ Im(a) = Im(b.items[i]))])
    ELSE PyBool(Re(a) = Re(b) /\ Im(a) = Im(b))

\* RealPacket.__eq__ and ComplexPacket.__eq__ (the same body)
ScalarPacket___eq__(self, other) ==
    LET q2 == _get_other_packet(other)
    IN  IF IsRaise(q2) THEN q2
        ELSE IF ~IsPacket(q2) THEN Raise("AttributeError")
        ELSE IF ~Unit___eq__(self.unit, q2.unit) THEN PyBool(FALSE)
        ELSE PyEq(self.value, q2.value)

\* a comparison check that accepts every pair of units
_valid_comparison_any(q1, q2) == TRUE

\* RealPacket._valid_comparison(q1, q2): TRUE when it returns
_valid_comparison(q1, q2) == Unit___eq__(q1.unit, q2.unit)

\* RealPacket.__lt__, __le__, __gt__ and __ge__
RealPacket_order(op, self, other) ==
    LET q2 == _get_other_packet(other)
    IN  IF IsRaise(q2) THEN q2
        ELSE IF ~IsPacket(q2) THEN Raise("AttributeError")
        ELSE IF ~_valid_comparison(self, q2) THEN Raise("ValueError")
        ELSE PyOrder(op, self.value, q2.value)

\* an ordering helper that answers instead of raising
_raise_ordering_error_answering == PyBool(FALSE)

\* ComplexPacket._raise_ordering_error and VectorPacket._raise_ordering_error
_raise_ordering_error == Raise("TypeError")

\* self <op> other for an ordering operator, by the class of self
Packet_order(op, self, other) ==
    IF self.cls = "RealPacket" THEN RealPacket_order(op, self, other)
    ELSE _raise_ordering_error

(***************************************************************************)
(* Transcendental functions of real scalars:                               *)
(* scalars/methods/transcendental.py                                       *)
(***************************************************************************)
\* the attribute lookup Unit.dimensionless: the class Unit defines no such
\* attribute
Unit_dimensionless == Raise("AttributeError")

\* RealPacket.magnitude: abs(self.value)
RealPacket_magnitude(q) ==
    [k |-> q.value.k, n |-> Abs(q.value.n), d |-> q.value.d]

\* _valid_input_for_transcendental(q, method): None when it returns
_valid_input_for_transcendental(q) ==
    IF IsRaise(Unit_dimensionless) THEN Unit_dimensionless
    ELSE IF Unit___eq__(q.unit, Unit_dimensionless) THEN None
    ELSE Raise("ValueError")

\* _valid_input_for_inverse(q, method): -1 <= q.magnitude <= 1
_valid_input_for_inverse(q) ==
    IF ~RLess(Re(RealPacket_magnitude(q)), <<-1, 1>>)
       /\ ~RLess(<<1, 1>>, Re(RealPacket_magnitude(q)))
    THEN None
    ELSE Raise("ValueError")

\* _valid_input_for_logarithms(q, n, method) for the fixed bases 2, 10 and e
_valid_input_for_logarithms(q) ==
    IF ~RLess(<<0, 1>>, Re(RealPacket_magnitude(q))) THEN Raise("ValueError")
    ELSE None

\* the float math.fn(x), left uninterpreted
MathValue(fn, x) == [k |-> "float", fn |-> fn, x |-> x]

\* the functions of the module that are modelled
PlainFns == {"sin", "exp", "sinh"}

InverseFns == {"asin", "acos"}

LogFns == {"log2", "log10", "nlog"}

TransFns == PlainFns \cup InverseFns \cup LogFns \cup {"acot"}

\* the check of fn that follows the unit check: None when it passes
DomainCheck(fn, q) ==
    CASE fn \in InverseFns -> _valid_input_for_inverse(q)
      [] fn \in LogFns -> _valid_input_for_logarithms(q)
      [] fn = "acot" -> IF RealPacket_magnitude(q).n = 0
                        THEN Raise("ZeroDivisionError") ELSE None
      [] OTHER -> None

\* sin_logic, exp_logic, sinh_logic, asin_logic, acos_logic, acot_logic,
\* log2_logic, log10_logic and nlog_logic
transcendental_logic(fn, q) ==
    IF IsRaise(_valid_input_for_transcendental(q))
    THEN _valid_input_for_transcendental(q)
    ELSE IF IsRaise(DomainCheck(fn, q)) THEN DomainCheck(fn, q)
    ELSE Factory_create(MathValue(fn, RealPacket_magnitude(q)), q.unit, None)

(***************************************************************************)
(* Display normalization: RealPacket._normalize, ComplexPacket._normalize  *)
(***************************************************************************)
\* abs(value) of Python
PyAbs(value) ==
    IF value.k = "complex"
    THEN LET m == RSqrt(RAdd(RMul(value.re, value.re), RMul(value.im, value.im)))
         IN  [k |-> "float", n |-> m[1], d |-> m[2]]
    ELSE [k |-> value.k, n |-> Abs(value.n), d |-> value.d]

\* the decades searched for int(log10(x))
Log10Range == 0..6

\* int(log10(x)) for a real x > 0: log10 cut toward zero
IntLog10(x) ==
    IF x.n >= x.d
    THEN CHOOSE p \in Log10Range :
            10 ^ p * x.d <= x.n /\ x.n < 10 ^ (p + 1) * x.d
    ELSE -(CHOOSE p \in Log10Range :
            x.n * 10 ^ p <= x.d /\ x.d < x.n * 10 ^ (p + 1))

\* 10 ** e of Python for an int e
TenTo(e) == IF e >= 0 THEN PyInt(10 ^ e) ELSE PyFloat(1, 10 ^ (-e))

\* a (value, prefix) tuple
Tuple2(value, prefix) == [k |-> "tuple", value |-> value, prefix |-> prefix]

\* RealPacket._normalize(self) and ComplexPacket._normalize(self)
_normalize(self) ==
    IF NumIsZero(self.value)
    THEN Tuple2(IF self.cls = "ComplexPacket"
                THEN PyComplex(<<0, 1>>, <<0, 1>>) ELSE PyInt(0),
                Prefix("BASE"))
    ELSE LET magnitude == PyAbs(self.value)
             log_power == IntLog10(magnitude)
             test_value == NumTrueDiv(magnitude, TenTo(log_power))
             prefix_power == IF ~RLess(<<1, 1>>, Re(test_value))
                             THEN log_power - 1 ELSE log_power
             closest == from_value(PyInt(prefix_power))
         IN  Tuple2(NumTrueDiv(self.value, TenTo(closest.value)), closest)

(***************************************************************************)
(* Factory.reallocate and the priority table: factory.py, priority.py      *)
(***************************************************************************)
DOMAIN_PRIORITY == [ScalarPacket |-> 1, VectorPacket |-> 2]

\* x.__class__.__bases__[0]
Parents(x) == IF IsPacket(x) THEN Category(x) ELSE "object"

\* DOMAIN_PRIORITY.get(parents, 0)
PriorityGet(parents) ==
    IF parents \in DOMAIN DOMAIN_PRIORITY THEN DOMAIN_PRIORITY[parents] ELSE 0

\* an operand of the wrapper: the object heap[i], or a value that is no Packet
Ref(i) == [k |-> "ref", i |-> i]

Deref(h, r) == IF r.k = "ref" THEN h[r.i] ELSE r

\* the call the wrapper ends with: method(q1, q2), or
\* getattr(winner, op_name)(loser)
Invoke(callee, receiver, argument) ==
    [k |-> "invoke", callee |-> callee, receiver |-> receiver,
     argument |-> argument]

\* a wrapper that invokes the operator on its left operand
wrapper_leftmost(h, q1, q2) ==
    IF Parents(Deref(h, q1)) = Parents(Deref(h, q2))
    THEN Invoke("method", q1, q2)
    ELSE Invoke("op_name", q1, q2)

\* wrapper(q1, q2) of Factory.reallocate(op_name)(method)
wrapper(h, q1, q2) ==
    LET q1_parents == Parents(Deref(h, q1))
        q2_parents == Parents(Deref(h, q2))
        p1 == PriorityGet(q1_parents)
        p2 == PriorityGet(q2_parents)
        winner == IF p1 >= p2 THEN q1 ELSE q2
        loser == IF winner = q1 THEN q2 ELSE q1
    IN  IF q1_parents = q2_parents THEN Invoke("method", q1, q2)
        ELSE Invoke("op_name", winner, loser)

(***************************************************************************)
(* Vector operations: vectors/methods/operations.py, vectors/types/array.py *)
(***************************************************************************)
\* the sum of the squares of the elements of items from idx on
RECURSIVE SumSquares(_, _)
SumSquares(items, idx) ==
    IF idx > Len(items) THEN <<0, 1>>
    ELSE RAdd(RMul(Re(items[idx]), Re(items[idx])), SumSquares(items, idx + 1))

\* ArrayPacket.magnitude: factory.create(float(linalg.norm(self.value)),
\* self.unit)
ArrayPacket_magnitude(self) ==
    LET norm == RSqrt(SumSquares(self.value.items, 1))
    IN  Factory_create([k |-> "float", n |-> norm[1], d |-> norm[2]],
                       self.unit, None)

\* an exception with the message it carries
RaiseMsg(exc, msg) == [k |-> "Raise", exc |-> exc, msg |-> msg]

\* the zero-magnitude errors of normalize and of angle_between
ZeroMagnitudeError(op) ==
    IF op = "unit_vector"
    THEN RaiseMsg("ValueError", "Cannot normalize a zero-magnitude vector")
    ELSE RaiseMsg("ValueError", "Cannot compute angle with zero-magnitude vector")

\* mag == 0 in an `if`: RealPacket.__eq__ of the magnitude and the int 0
MagIsZero(mag) == ScalarPacket___eq__(mag, PyInt(0)) = PyBool(TRUE)

\* element / mag for an element of the ndarray: ScalarPacket.__rtruediv__
\* of the magnitude
ScalarPacket___rtruediv__(self, other) ==
    IF IsRaise(_get_other_packet(other)) THEN _get_other_packet(other)
    ELSE ScalarPacket_op("truediv", _get_other_packet(other), self)

\* normalize(q1)
normalize(q1) ==
    LET mag == ArrayPacket_magnitude(q1)
        quotients == [i \in 1..Len(q1.value.items) |->
                         ScalarPacket___rtruediv__(mag, q1.value.items[i])]
    IN  IF MagIsZero(mag) THEN ZeroMagnitudeError("unit_vector")
        ELSE IF FirstRaise(quotients) # None THEN FirstRaise(quotients)
        ELSE Factory_create(NdArray(quotients), q1.unit, None)

\* the attribute lookup Factory.category_check: the class Factory defines
\* no such attribute
Factory_category_check == Raise("AttributeError")

\* numpy.dot of two arrays of the same length
RECURSIVE np_dot(_, _, _)
np_dot(a, b, idx) ==
    IF idx > Len(a) THEN <<0, 1>>
    ELSE RAdd(RMul(Re(a[idx]), Re(b[idx])), np_dot(a, b, idx + 1))

\* angle_between(q1, q2)
\* the float of the rational r
FloatOf(r) == [k |-> "float", n |-> r[1], d |-> r[2]]

\* cos_angle = dot_product / (q1_mag * q2_mag), product being q1_mag * q2_mag
cos_angle(dot_product, product) ==
    IF IsRaise(product) THEN product
    ELSE ScalarPacket___rtruediv__(product, dot_product)

\* Factory.create(angle_rad, Unit.dimensionless()) once cos_angle is there
angle_rad(cos) == IF IsRaise(cos) THEN cos ELSE Unit_dimensionless

\* the statements of angle_between after the two checks
angle_of_magnitudes(q1, q2, q1_mag, q2_mag) ==
    IF MagIsZero(q1_mag) \/ MagIsZero(q2_mag)
    THEN ZeroMagnitudeError("angle_between")
    ELSE angle_rad(cos_angle(FloatOf(np_dot(q1.value.items, q2.value.items, 1)),
                             ScalarPacket_op("mul", q1_mag, q2_mag)))

\* angle_between(q1, q2)
angle_between(q1, q2) ==
    IF IsRaise(Factory_category_check) THEN Factory_category_check
    ELSE IF ~unit_check(q1, q2) THEN Raise("ValueError")
    ELSE angle_of_magnitudes(q1, q2, ArrayPacket_magnitude(q1),
                             ArrayPacket_magnitude(q2))

(***************************************************************************)
(* Prefixed units and their conversion: dimensions/units.py                *)
(***************************************************************************)
\* Dimension(prefix, base, exponent) of dimensions/units.py, whose
\* __post_init__ turns an exponent 0 into the dimensionless base
units_Dimension(prefix, base, exponent) ==
    IF exponent = 0
    THEN [prefix |-> prefix, base |-> "DIMENSIONLESS", exponent |-> 1]
    ELSE [prefix |-> prefix, base |-> base, exponent |-> exponent]

\* Unit(*dimensions) of dimensions/units.py
units_Unit(dimensions) ==
    LET physical(dim) == dim.base # "DIMENSIONLESS"
        kept == IF Len(dimensions) > 1 THEN SelectSeq(dimensions, physical)
                ELSE dimensions
    IN  IF dimensions = <<>> THEN Raise("RuntimeError")
        ELSE IF \E i, j \in 1..Len(kept) : i # j /\ kept[i].base = kept[j].base
        THEN Raise("RuntimeError")
        ELSE [k |-> "units.Unit", dimensions |-> kept]

\* the keys (dim.base, dim.exponent) of the lookup of a unit
LookupKeys(unit) ==
    {<<unit.dimensions[i].base, unit.dimensions[i].exponent>> :
        i \in 1..Len(unit.dimensions)}

\* _valid_conversion(old, new): None when it returns
units__valid_conversion(old, new) ==
    IF Len(old.dimensions) # Len(new.dimensions) THEN Raise("ValueError")
    ELSE IF LookupKeys(old) # LookupKeys(new) THEN Raise("ValueError")
    ELSE None

\* lookup[key]: the last dimension of new with that base and exponent
Lookup(new, key) ==
    new.dimensions[CHOOSE i \in 1..Len(new.dimensions) :
        /\ <<new.dimensions[i].base, new.dimensions[i].exponent>> = key
        /\ \A j \in (i + 1)..Len(new.dimensions) :
              <<new.dimensions[j].base, new.dimensions[j].exponent>> # key]

\* _computes_scale(old, new): the product of the factors of the dimensions
\* of old from idx on
RECURSIVE _computes_scale(_, _, _)
_computes_scale(old, new, idx) ==
    IF idx > Len(old.dimensions) THEN PyFloat(1, 1)
    ELSE LET old_dim == old.dimensions[idx]
             new_dim == Lookup(new, <<old_dim.base, old_dim.exponent>>)
             prefix_diff == PrefixScale[old_dim.prefix] - PrefixScale[new_dim.prefix]
             total_exponent == prefix_diff * old_dim.exponent
         IN  NumMul(TenTo(total_exponent), _computes_scale(old, new, idx + 1))

\* a conversion that renames the unit and leaves the number as it is
conversion_unscaled(magnitude, old, new) ==
    IF IsRaise(units__valid_conversion(old, new))
    THEN units__valid_conversion(old, new)
    ELSE Tuple2(magnitude, new)

\* conversion(magnitude, old, new)
conversion(magnitude, old, new) ==
    IF IsRaise(units__valid_conversion(old, new))
    THEN units__valid_conversion(old, new)
    ELSE LET factor == _computes_scale(old, new, 1)
             result == NumMul(magnitude, factor)
         IN  Tuple2(IF Re(result)[2] = 1 THEN PyInt(Re(result)[1]) ELSE result,
                    new)

(***************************************************************************)
(* Unit expressions: extensions/utilities.  A string is the sequence of    *)
(* its characters and so is every token cut from it; a character outside   *)
(* ASCII is written by its code point: "U+00B2" is the superscript two.    *)
(***************************************************************************)
\* a member of the enum Operations
Member(name) == [k |-> "Operations", name |-> name]

MULTIPLICATION == Member("MULTIPLICATION")

DIVIDED == Member("DIVIDED")

POWER == Member("POWER")

MULTIPLICATION_SYMBOLS == {"*", "x", "U+00B7", "U+2219"}

DIVIDED_SYMBOLS == {"/", "U+00F7"}

\* SUPERSCRIPT_MAP
SUPERSCRIPT_MAP ==
    [c \in {"U+2070", "U+00B9", "U+00B2", "U+00B3", "U+2074", "U+2075", "U+2076", "U+2077", "U+2078", "U+2079"} |->
        CASE c = "U+2070" -> 0 [] c = "U+00B9" -> 1 [] c = "U+00B2" -> 2 [] c = "U+00B3" -> 3
          [] c = "U+2074" -> 4 [] c = "U+2075" -> 5 [] c = "U+2076" -> 6 [] c = "U+2077" -> 7
          [] c = "U+2078" -> 8 [] c = "U+2079" -> 9]

\* _LOOKUP_STRINGS
_LOOKUP_STRINGS ==
    [c \in MULTIPLICATION_SYMBOLS \cup DIVIDED_SYMBOLS \cup {"^"}
              \cup DOMAIN SUPERSCRIPT_MAP |->
        IF c \in MULTIPLICATION_SYMBOLS THEN MULTIPLICATION
        ELSE IF c \in DIVIDED_SYMBOLS THEN DIVIDED
        ELSE POWER]

\* Operations.all_symbols()
all_symbols == DOMAIN _LOOKUP_STRINGS

\* Operations.from_symbol(char)
Operations_from_symbol(char) ==
    IF Len(char) = 1 /\ char[1] \in DOMAIN _LOOKUP_STRINGS
    THEN _LOOKUP_STRINGS[char[1]]
    ELSE Raise("ParserError")

\* Operations.check_unicode_power(power): SUPERSCRIPT_MAP[power], False on a
\* KeyError; power is whatever the caller hands over, a token or not
check_unicode_power(power) ==
    IF power.k = "str" /\ Len(power.s) = 1 /\ power.s[1] \in DOMAIN SUPERSCRIPT_MAP
    THEN PyInt(SUPERSCRIPT_MAP[power.s[1]])
    ELSE PyBool(FALSE)

\* Operations.validate_unicode_usage(tokens)
validate_unicode_usage(tokens) ==
    IF \E index \in 1..Len(tokens) :
          /\ tokens[index] = <<"^">>
          /\ index + 1 <= Len(tokens)
          /\ Len(tokens[index + 1]) = 1
          /\ tokens[index + 1][1] \in DOMAIN SUPERSCRIPT_MAP
    THEN Raise("ParserError")
    ELSE None

\* _SIBASE_SYMBOLS
_SIBASE_SYMBOLS ==
    [TIME |-> <<"s">>, LENGTH |-> <<"m">>, MASS |-> <<"k", "g">>,
     CURRENT |-> <<"A">>, THERMAL |-> <<"K">>, AMOUNT |-> <<"m", "o", "l">>,
     LUMINOSITY |-> <<"c", "d">>, DIMENSIONLESS |-> <<"U+2205">>]

\* FBase.from_symbol(reference), with no preferred symbols configured
FBase_from_symbol(reference) ==
    IF \E member \in DOMAIN _SIBASE_SYMBOLS : _SIBASE_SYMBOLS[member] = reference
    THEN [k |-> "FBase",
          name |-> CHOOSE member \in DOMAIN _SIBASE_SYMBOLS :
                      _SIBASE_SYMBOLS[member] = reference]
    ELSE None

Digits == [c \in {"0", "1", "2", "3", "4", "5", "6", "7", "8", "9"} |->
             CASE c = "0" -> 0 [] c = "1" -> 1 [] c = "2" -> 2 [] c = "3" -> 3
               [] c = "4" -> 4 [] c = "5" -> 5 [] c = "6" -> 6 [] c = "7" -> 7
               [] c = "8" -> 8 [] c = "9" -> 9]

RECURSIVE DigitsValue(_, _)
DigitsValue(s, n) ==
    IF n = 0 THEN 0 ELSE 10 * DigitsValue(s, n - 1) + Digits[s[n]]

\* int(token): an optional sign and decimal digits, ValueError otherwise
int(token) ==
    LET signed == Len(token) > 0 /\ token[1] \in {"+", "-"}
        body   == IF signed THEN Tail(token) ELSE token
    IN  IF Len(body) = 0 \/ \E i \in 1..Len(body) : body[i] \notin DOMAIN Digits
        THEN Raise("ValueError")
        ELSE IF signed /\ token[1] = "-"
             THEN PyInt(-DigitsValue(body, Len(body)))
             ELSE PyInt(DigitsValue(body, Len(body)))

\* bool is a subclass of int: False counts as 0 and True as 1
AsNumber(x) == IF x.k = "bool" THEN PyInt(IF x.v THEN 1 ELSE 0) ELSE x

\* result *= pending_unit and result /= pending_unit; a result that is still
\* a Dimension has neither operator and Python turns to the reflected one of Unit
Apply(queue_operation, result, pending_unit) ==
    CASE queue_operation = MULTIPLICATION ->
            IF IsUnit(result) THEN Unit___mul__(result, pending_unit)
            ELSE Unit___rmul__(pending_unit, result)
      [] queue_operation = DIVIDED ->
            IF IsUnit(result) THEN Unit___truediv__(result, pending_unit)
            ELSE Raise("ValueError")
      [] queue_operation = None -> pending_unit

\* the local variables of _construct_from_tokenized_unit
Locals(result, queue_operation, pending_unit, pending_power, raised) ==
    [result |-> result, queue_operation |-> queue_operation,
     pending_unit |-> pending_unit, pending_power |-> pending_power,
     raised |-> raised]

\* one pass of the body of `for token in tokens`
LoopBody(st, token) ==
    LET symbol == FBase_from_symbol(token)
        operation == Operations_from_symbol(token)
        Fail(exc) == [st EXCEPT !.raised = exc]
    IN  IF st.raised # None THEN st
        ELSE IF symbol # None
        THEN [st EXCEPT !.pending_unit = Unit(<<Dimension(symbol.name, PyInt(1))>>)]
        ELSE IF IsRaise(operation)
        THEN LET power == int(token)
                 raisedTo == Unit___pow__(st.pending_unit, power)
             IN  IF IsRaise(power) THEN Fail(Raise("ParserError"))
                 ELSE IF st.pending_unit = None
                 THEN [st EXCEPT !.pending_power = power]
                 ELSE IF IsRaise(raisedTo)
                 THEN Fail(IF raisedTo.exc = "ValueError"
                           THEN Raise("ParserError") ELSE raisedTo)
                 ELSE [st EXCEPT !.pending_unit = raisedTo, !.pending_power = None]
        ELSE IF operation = POWER
        THEN LET power == check_unicode_power(operation)
                 raisedTo == Unit___pow__(st.pending_unit, AsNumber(power))
             IN  IF st.pending_unit = None
                 THEN [st EXCEPT !.pending_power = power]
                 ELSE IF IsRaise(raisedTo) THEN Fail(raisedTo)
                 ELSE [st EXCEPT !.pending_unit = raisedTo, !.pending_power = None]
        ELSE IF st.pending_unit # None
        THEN LET applied == Apply(st.queue_operation, st.result, st.pending_unit)
             IN  IF IsRaise(applied) THEN Fail(applied)
                 ELSE [st EXCEPT !.result = applied, !.pending_unit = None,
                                 !.queue_operation = operation]
        ELSE [st EXCEPT !.queue_operation = operation]

RECURSIVE Loop(_, _, _)
Loop(st, tokens, i) ==
    IF i > Len(tokens) THEN st ELSE Loop(LoopBody(st, tokens[i]), tokens, i + 1)

\* Construct._construct_from_tokenized_unit(tokens)
_construct_from_tokenized_unit(tokens) ==
    LET st == Loop(Locals(Dimension_dimensionless, None, None, None, None),
                   tokens, 1)
        powered == IF st.pending_power # None
                   THEN Unit___pow__(st.pending_unit, AsNumber(st.pending_power))
                   ELSE st.pending_unit
    IN  IF validate_unicode_usage(tokens) # None THEN validate_unicode_usage(tokens)
        ELSE IF st.raised # None THEN st.raised
        ELSE IF st.pending_unit = None THEN st.result
        ELSE IF IsRaise(powered) THEN powered
        ELSE Apply(st.queue_operation, st.result, powered)

\* unit_str.replace(op, " op ") for every operator symbol, then unit_str.split()
RECURSIVE split(_, _, _, _)
split(unit_str, i, word, tokens) ==
    LET flushed == IF word = <<>> THEN tokens ELSE Append(tokens, word)
    IN  IF i > Len(unit_str) THEN flushed
        ELSE IF unit_str[i] \in all_symbols
        THEN split(unit_str, i + 1, <<>>, Append(flushed, <<unit_str[i]>>))
        ELSE IF unit_str[i] = " "
        THEN split(unit_str, i + 1, <<>>, flushed)
        ELSE split(unit_str, i + 1, Append(word, unit_str[i]), tokens)

\* FBase.all_symbols: FBase has no such attribute
FBase_all_symbols == Raise("AttributeError")

\* Construct._tokenize_unit(unit_str)
_tokenize_unit(unit_str) ==
    LET tokens == split(unit_str, 1, <<>>, <<>>)
    IN  IF unit_str = <<>> THEN Unit_dimensionless
        ELSE IF Len(tokens) = 1
        THEN IF FBase_from_symbol(tokens[1]) = None THEN FBase_all_symbols
             ELSE Unit(<<Dimension(FBase_from_symbol(tokens[1]).name, PyInt(1))>>)
        ELSE _construct_from_tokenized_unit(tokens)

(***************************************************************************)
(* Tokenizer.extract_parent_groups: a call in progress is its frame, the   *)
(* local variables and the statement it is at.  index is 0-based as in the *)
(* source, so text[index] of the source is text[index + 1] here.           *)
(***************************************************************************)
MAX_ITERATIONS == 10000

\* quote_character = None
NoQuote == ""

Frame(pc, index, iterations, groups, start, depth, quote_character, found_match) ==
    [k |-> "frame", pc |-> pc, index |-> index, iterations |-> iterations,
     groups |-> groups, start |-> start, depth |-> depth,
     quote_character |-> quote_character, found_match |-> found_match]

\* the frame at the head of the outer while loop, before the first iteration
EntryFrame == Frame("while", 0, 0, <<>>, 0, 0, NoQuote, FALSE)

\* the toggle of quote_character on a quote character
Toggle(quote_character, character) ==
    IF character \in {"\"", "'"}
    THEN IF quote_character = NoQuote THEN character
         ELSE IF character = quote_character THEN NoQuote
         ELSE quote_character
    ELSE quote_character

\* one evaluation of the outer `while index < len(text)` and of its body up
\* to the inner loop; the function ends without a return statement
outer_iteration(f, text) ==
    IF ~(f.index < Len(text)) THEN [f EXCEPT !.pc = "returned"]
    ELSE IF f.iterations + 1 > MAX_ITERATIONS
    THEN [f EXCEPT !.iterations = @ + 1, !.pc = "raised"]
    ELSE IF text[f.index + 1] # "("
    THEN [f EXCEPT !.iterations = @ + 1, !.index = @ + 1]
    ELSE [f EXCEPT !.iterations = @ + 1, !.start = f.index + 1, !.depth = 0,
                   !.quote_character = NoQuote, !.found_match = FALSE,
                   !.pc = "inner"]

\* one evaluation of the test of the inner `while index < len(text)`
inner_test(f, text) ==
    IF f.index < Len(text) THEN [f EXCEPT !.pc = "body"] ELSE [f EXCEPT !.pc = "check"]

\* one execution of the body of the inner loop: it ends at the test again
\* (by `continue` or by reaching the end of the body) or leaves by `break`
inner_body(f, text) ==
    LET character == text[f.index + 1]
        quote == Toggle(f.quote_character, character)
    IN  IF f.index > 0 /\ text[f.index] = "\\" THEN [f EXCEPT !.pc = "inner"]
        ELSE IF quote = NoQuote /\ character = "("
        THEN [f EXCEPT !.quote_character = quote, !.depth = @ + 1, !.index = @ + 1,
                       !.pc = "inner"]
        ELSE IF quote = NoQuote /\ character = ")" /\ f.depth - 1 = 0
        THEN [f EXCEPT !.quote_character = quote, !.depth = @ - 1,
                       !.groups = Append(@, SubSeq(text, f.start + 1, f.index)),
                       !.found_match = TRUE, !.index = @ + 1, !.pc = "check"]
        ELSE IF quote = NoQuote /\ character = ")"
        THEN [f EXCEPT !.quote_character = quote, !.depth = @ - 1, !.index = @ + 1,
                       !.pc = "inner"]
        ELSE [f EXCEPT !.quote_character = quote, !.index = @ + 1, !.pc = "inner"]

\* `if not found_match: raise ParserError`, else back to the outer loop
after_inner(f) ==
    IF ~f.found_match THEN [f EXCEPT !.pc = "raised"] ELSE [f EXCEPT !.pc = "while"]

(***************************************************************************)
(* Inputs of the Unit operations                                           *)
(***************************************************************************)
NotADimension == PyStr("I like Physics")

\* the (base, exponent) pairs of the Dimension objects handed to Unit(...)
InDims == {<<"LENGTH", 1>>, <<"LENGTH", -1>>, <<"LENGTH", MAX_EXPONENT>>,
           <<"TIME", -1>>, <<"TIME", 0>>, <<"DIMENSIONLESS", 1>>}

DimPool == {Dimension(p[1], PyInt(p[2])) : p \in InDims}

ArgPool == DimPool \cup {NotADimension}

RECURSIVE SeqsUpTo(_, _)
SeqsUpTo(S, n) ==
    IF n = 0 THEN {<<>>}
    ELSE LET shorter == SeqsUpTo(S, n - 1)
         IN  shorter \cup {Append(s, x) : s \in shorter, x \in S}

\* arguments of Dimension(base, exponent)
DimBaseInputs == FBase \cup {"not an FBase"}

DimExponentInputs == {PyInt(e) : e \in {-(MAX_EXPONENT + 1), -MAX_EXPONENT, -1, 0, 1,
                                         MAX_EXPONENT, MAX_EXPONENT + 1}}
                        \cup {PyFloat(1, 2)}

\* right operands of ** on a Unit
PowInputs == {PyInt(-1), PyInt(0), PyInt(2), PyInt(5), PyFloat(1, 2),
              PyFloat(2, 1), NotADimension}

\* right operands of * and / on a Unit that are no Unit
NonUnitInputs == {PyInt(10), NotADimension}

(***************************************************************************)
(* State: two Unit operands, the last call with its outcome, and the heap  *)
(* of Packet objects                                                       *)
(***************************************************************************)
Call(op, self, arg, res) == [op |-> op, self |-> self, arg |-> arg, res |-> res]

Init ==
    /\ ua = DIMENSIONLESS
    /\ ub = DIMENSIONLESS
    /\ last = Call("none", None, None, None)
    /\ nload = 0
    /\ heap = <<>>
    /\ plast = Call("none", None, None, None)

\* Dimension(base, exponent)
DimensionNew(base, exponent) ==
    /\ last' = Call("Dimension", None,
                    [k |-> "args", base |-> base, exponent |-> exponent],
                    Dimension(base, exponent))
    /\ UNCHANGED <<ua, ub, nload, pvars>>

\* Unit(*args)
UnitNew(args) ==
    /\ last' = Call("Unit", None, [k |-> "args", items |-> args], Unit(args))
    /\ UNCHANGED <<ua, ub, nload, pvars>>

\* ua * other
UnitMul(other) ==
    /\ last' = Call("mul", ua, other, Unit___mul__(ua, other))
    /\ UNCHANGED <<ua, ub, nload, pvars>>

\* ua / other
UnitDiv(other) ==
    /\ last' = Call("truediv", ua, other, Unit___truediv__(ua, other))
    /\ UNCHANGED <<ua, ub, nload, pvars>>

\* ua ** other
UnitPow(other) ==
    /\ last' = Call("pow", ua, other, Unit___pow__(ua, other))
    /\ UNCHANGED <<ua, ub, nload, pvars>>

\* ua == ub
UnitEq ==
    /\ last' = Call("eq", ua, ub, [k |-> "bool", v |-> Unit___eq__(ua, ub)])
    /\ UNCHANGED <<ua, ub, nload, pvars>>

\* the caller keeps a returned Unit as the left operand of later calls
LoadA ==
    /\ IsUnit(last.res)
    /\ nload < MaxLoads
    /\ ua' = last.res
    /\ nload' = nload + 1
    /\ UNCHANGED <<ub, last, pvars>>

\* the caller keeps a returned Unit as the right operand of later calls
LoadB ==
    /\ IsUnit(last.res)
    /\ nload < MaxLoads
    /\ ub' = last.res
    /\ nload' = nload + 1
    /\ UNCHANGED <<ua, last, pvars>>

(***************************************************************************)
(* Packet operations.  heap holds the Packets the caller has references    *)
(* to, an object's identity being its index; plast is the last call.       *)
(***************************************************************************)
LENGTH == Unit(<<Dimension("LENGTH", PyInt(1))>>)

TIME == Unit(<<Dimension("TIME", PyInt(1))>>)

CallArgs(value, unit, prefix) ==
    [k |-> "args", value |-> value, unit |-> unit, prefix |-> prefix]

\* the heap once the caller keeps a reference to the result of a call
Keep(res, keep) ==
    IF keep /\ IsPacket(res) /\ Len(heap) < MaxObjs THEN Append(heap, res) ELSE heap

\* p = Factory.create(value, unit, prefix)
FactoryCreate(value, unit, prefix, keep) ==
    /\ plast' = Call("Factory.create", None, CallArgs(value, unit, prefix),
                     Factory_create(value, unit, prefix))
    /\ heap' = Keep(Factory_create(value, unit, prefix), keep)
    /\ UNCHANGED uvars

\* p = RealPacket(value, unit, prefix)
NewRealPacket(value, unit, prefix) ==
    /\ plast' = Call("RealPacket", None, CallArgs(value, unit, prefix),
                     RealPacket(value, unit, prefix))
    /\ UNCHANGED <<heap, uvars>>

\* p = ComplexPacket(value, unit, prefix)
NewComplexPacket(value, unit, prefix) ==
    /\ plast' = Call("ComplexPacket", None, CallArgs(value, unit, prefix),
                     ComplexPacket(value, unit, prefix))
    /\ UNCHANGED <<heap, uvars>>

\* p = ArrayPacket(value, unit, prefix)
NewArrayPacket(value, unit, prefix, keep) ==
    /\ plast' = Call("ArrayPacket", None, CallArgs(value, unit, prefix),
                     ArrayPacket(value, unit, prefix))
    /\ heap' = Keep(ArrayPacket(value, unit, prefix), keep)
    /\ UNCHANGED uvars

\* heap[i] <op> other for an ordering operator
Order(op, i, other) ==
    /\ plast' = Call(op, heap[i], other, Packet_order(op, heap[i], other))
    /\ UNCHANGED <<heap, uvars>>

\* heap[i] == other for a scalar Packet heap[i]
Equal(i, other) ==
    /\ Category(heap[i]) = "ScalarPacket"
    /\ plast' = Call("eq", heap[i], other, ScalarPacket___eq__(heap[i], other))
    /\ UNCHANGED <<heap, uvars>>

\* heap[i].sin(), .exp(), .asin(), .log10(), ... for a RealPacket heap[i]
Transcendental(fn, i) ==
    /\ heap[i].cls = "RealPacket"
    /\ plast' = Call(fn, heap[i], None, transcendental_logic(fn, heap[i]))
    /\ UNCHANGED <<heap, uvars>>

\* the names of the reflected operators
ReflectedNames == {"__rsub__", "__rtruediv__", "__rpow__"}

\* the (left, right) operands of the operator that the call invoke
\* evaluates: x.__op__(y) is x op y and x.__rop__(y) is y op x; the wrapped
\* method is the forward operator
Operands(op_name, invoke) ==
    IF invoke.callee = "op_name" /\ op_name \in ReflectedNames
    THEN [k |-> "operands", left |-> invoke.argument, right |-> invoke.receiver]
    ELSE [k |-> "operands", left |-> invoke.receiver, right |-> invoke.argument]

\* heap[i] <op> q2 for an operator decorated with Factory.reallocate(op_name)
ReallocateNamed(op_name, i, q2) ==
    /\ plast' = Call(op_name, Ref(i), q2,
                     Operands(op_name, wrapper(heap, Ref(i), q2)))
    /\ UNCHANGED <<heap, uvars>>

\* a wrapped operator of heap[i] called with the operand q2
Reallocate(i, q2) ==
    /\ plast' = Call("reallocate", Ref(i), q2, wrapper(heap, Ref(i), q2))
    /\ UNCHANGED <<heap, uvars>>

\* heap[i] op heap[j] and heap[j] op heap[i] for two scalar Packets
BothWays(op, i, j) ==
    /\ Category(heap[i]) = "ScalarPacket"
    /\ Category(heap[j]) = "ScalarPacket"
    /\ plast' = Call(op, heap[i], heap[j],
                     [k |-> "pair",
                      ab |-> ScalarPacket_op(op, heap[i], heap[j]),
                      ba |-> ScalarPacket_op(op, heap[j], heap[i])])
    /\ UNCHANGED <<heap, uvars>>

\* heap[i]._normalize() for a scalar Packet heap[i]
Normalize(i) ==
    /\ Category(heap[i]) = "ScalarPacket"
    /\ plast' = Call("_normalize", heap[i], None, _normalize(heap[i]))
    /\ UNCHANGED <<heap, uvars>>

\* PrefixScale.from_value(power)
FromValue(power) ==
    /\ plast' = Call("from_value", None, power, from_value_scan(power))
    /\ UNCHANGED <<heap, uvars>>

\* Construct._tokenize_unit(unit_str)
TokenizeUnit(unit_str) ==
    /\ plast' = Call("_tokenize_unit", None, PyStr(unit_str), _tokenize_unit(unit_str))
    /\ UNCHANGED <<heap, uvars>>

\* Construct._construct_from_tokenized_unit(tokens)
ConstructFromTokens(tokens) ==
    /\ plast' = Call("_construct_from_tokenized_unit", None, PyList(tokens),
                     _construct_from_tokenized_unit(tokens))
    /\ UNCHANGED <<heap, uvars>>

\* a call of extract_parent_groups that has not ended
Scanning(pc) == plast.op = "extract_parent_groups" /\ plast.self.pc = pc

Ended == plast.op = "extract_parent_groups" /\ plast.self.pc \in {"returned", "raised"}

\* the outcome of a frame: None when the function falls off its end
Outcome(f) ==
    IF f.pc = "raised" THEN Raise("ParserError") ELSE None

Continue(f) ==
    /\ plast' = [plast EXCEPT !.self = f, !.res = Outcome(f)]
    /\ UNCHANGED <<heap, uvars>>

\* Tokenizer.extract_parent_groups(text) is called
ExtractParentGroups(text) ==
    /\ plast.op = "none" \/ Ended
    /\ plast' = Call("extract_parent_groups", EntryFrame, PyStr(text), None)
    /\ UNCHANGED <<heap, uvars>>

\* the running call executes one iteration of the outer loop
OuterLoop == Scanning("while") /\ Continue(outer_iteration(plast.self, plast.arg.s))

\* the running call evaluates the test of the inner loop
InnerLoop == Scanning("inner") /\ Continue(inner_test(plast.self, plast.arg.s))

\* the running call executes the body of the inner loop once
InnerBody == Scanning("body") /\ Continue(inner_body(plast.self, plast.arg.s))

\* the running call executes the check after the inner loop
AfterInner == Scanning("check") /\ Continue(after_inner(plast.self))

\* the arguments of conversion
ConvArgs(magnitude, old, new) ==
    [k |-> "args", magnitude |-> magnitude, old |-> old, new |-> new]

\* conversion(magnitude, old, new)
Convert(magnitude, old, new) ==
    /\ plast' = Call("conversion", None, ConvArgs(magnitude, old, new),
                     conversion(magnitude, old, new))
    /\ UNCHANGED <<heap, uvars>>

\* conversion(forward, new, old) on the result of the conversion before;
\* the record keeps the arguments of the first conversion
ConvertBack ==
    /\ plast.op = "conversion"
    /\ ~IsRaise(plast.res)
    /\ plast' = Call("conversion back", None, plast.arg,
                     conversion(plast.res.value, plast.arg.new, plast.arg.old))
    /\ UNCHANGED <<heap, uvars>>

\* heap[i].unit_vector() for an ArrayPacket heap[i]
UnitVector(i) ==
    /\ heap[i].cls = "ArrayPacket"
    /\ plast' = Call("unit_vector", heap[i], None, normalize(heap[i]))
    /\ UNCHANGED <<heap, uvars>>

\* heap[i].angle_between(heap[j]) for two ArrayPackets of one length
AngleBetween(i, j) ==
    /\ heap[i].cls = "ArrayPacket"
    /\ heap[j].cls = "ArrayPacket"
    /\ Len(heap[i].value.items) = Len(heap[j].value.items)
    /\ plast' = Call("angle_between", heap[i], heap[j],
                     angle_between(heap[i], heap[j]))
    /\ UNCHANGED <<heap, uvars>>

\* number of elements numpy.append takes from item
ItemLen(item) == IF IsPacket(item) THEN Len(Flat(item.value)) ELSE 0

\* heap[i] <op> other for a scalar Packet heap[i]; the in-place operators
\* return the result of the plain one and leave self as it is
ScalarOp(op, i, other) ==
    /\ Category(heap[i]) = "ScalarPacket"
    /\ plast' = Call(op, heap[i], other, ScalarPacket_op(op, heap[i], other))
    /\ UNCHANGED <<heap, uvars>>

\* heap[i].append(item): assigns self.value unless it raises
ArrayAppend(i, item) ==
    /\ heap[i].cls = "ArrayPacket"
    /\ Len(Flat(heap[i].value)) + ItemLen(item) <= MaxArrayLen
    /\ plast' = Call("append", heap[i], item,
                     IF IsRaise(ArrayPacket_append(heap[i], item))
                     THEN ArrayPacket_append(heap[i], item) ELSE None)
    /\ heap' = IF IsRaise(ArrayPacket_append(heap[i], item)) THEN heap
               ELSE [heap EXCEPT ![i].value = ArrayPacket_append(heap[i], item)]
    /\ UNCHANGED uvars

\* the Packets on the heap, as operands
HeapObjs == {heap[i] : i \in 1..Len(heap)}

Next ==
    \/ \E b \in DimBaseInputs, e \in DimExponentInputs : DimensionNew(b, e)
    \/ \E args \in SeqsUpTo(ArgPool, MaxDims) : UnitNew(args)
    \/ \E other \in {ub} \cup NonUnitInputs : UnitMul(other)
    \/ \E other \in {ub} \cup NonUnitInputs : UnitDiv(other)
    \/ \E n \in PowInputs : UnitPow(n)
    \/ UnitEq
    \/ LoadA
    \/ LoadB

Spec == Init /\ [][Next]_vars

(***************************************************************************)
(* Inputs of the Packet operations                                         *)
(***************************************************************************)
NotAUnit == PyStr("m")

NotAPrefix == PyInt(3)

OnePlusTwoJ == PyComplex(<<1, 1>>, <<2, 1>>)

\* values handed to the constructors and to Factory.create
CtorValues ==
    {PyInt(2), PyFloat(1, 2), OnePlusTwoJ, PyStr("2"), None,
     PyList(<<PyInt(1), PyFloat(1, 2)>>),
     PyList(<<OnePlusTwoJ>>),
     PyList(<<MkPacket("RealPacket", PyInt(2), LENGTH)>>),
     PyList(<<PyInt(3), MkPacket("RealPacket", PyInt(2), LENGTH)>>),
     PyList(<<MkPacket("RealPacket", PyInt(2), TIME)>>),
     PyList(<<MkPacket("ComplexPacket", OnePlusTwoJ, LENGTH)>>)}

CtorUnits == {LENGTH, DIMENSIONLESS, NotAUnit}

CtorPrefixes == {Prefix("BASE"), Prefix("KILO"), Prefix("MILLI"), NotAPrefix}

\* numbers and prefixes of the calls that exercise the scaling alone
ScaledValues == {PyInt(2), PyInt(-3), PyFloat(1, 2), OnePlusTwoJ}

WidePrefixes == {Prefix(n) : n \in {"HECTO", "DEKA", "DECI", "CENTI"}}

\* the calls of Factory.create whose result the caller keeps
KeptCreate ==
    {<<PyInt(2), LENGTH, None>>, <<PyInt(2), LENGTH, Prefix("KILO")>>,
     <<PyInt(2), TIME, None>>, <<PyInt(0), DIMENSIONLESS, None>>,
     <<PyInt(2), DIMENSIONLESS, None>>, <<OnePlusTwoJ, LENGTH, None>>}

\* the calls of Factory.create whose result is kept to be compared and to
\* be given to the transcendental functions
KeptQuery ==
    {<<PyInt(2), LENGTH, None>>, <<PyInt(0), DIMENSIONLESS, None>>,
     <<PyInt(2), DIMENSIONLESS, None>>, <<PyInt(-1), DIMENSIONLESS, None>>,
     <<OnePlusTwoJ, LENGTH, None>>}

\* the calls of ArrayPacket whose result the caller keeps
KeptArray == {<<PyList(<<PyInt(1)>>), LENGTH, Prefix("BASE")>>}

\* right operands that are no Packets
PlainOperands == {PyInt(0), PyInt(2), PyStr("2"), LENGTH}

OrderOps == {"lt", "le", "gt", "ge"}

\* the operators whose scalar logic takes an operand of either category
AdditiveOps == {"add", "iadd", "sub", "isub"}

\* the operators that are given scalar right operands only
ScalingOps == {"mul", "imul", "truediv", "itruediv", "pow"}

\* the scalar Packets on the heap
ScalarObjs == {q \in HeapObjs : Category(q) = "ScalarPacket"}

\* the constructors and the factory on every kind of argument, the caller
\* dropping the result
CtorNext ==
    \/ \E v \in CtorValues, u \in CtorUnits, p \in CtorPrefixes \cup {None} :
          FactoryCreate(v, u, p, FALSE)
    \/ \E v \in ScaledValues, p \in WidePrefixes : FactoryCreate(v, LENGTH, p, FALSE)
    \/ \E v \in CtorValues, u \in CtorUnits, p \in CtorPrefixes :
          NewRealPacket(v, u, p)
    \/ \E v \in CtorValues, u \in CtorUnits, p \in CtorPrefixes :
          NewComplexPacket(v, u, p)
    \/ \E v \in CtorValues, u \in CtorUnits, p \in CtorPrefixes :
          NewArrayPacket(v, u, p, FALSE)

CtorSpec == Init /\ [][CtorNext]_vars

\* a few Packets kept on the heap and the operations between them
PacketNext ==
    \/ \E c \in KeptCreate : FactoryCreate(c[1], c[2], c[3], TRUE)
    \/ \E c \in KeptArray : NewArrayPacket(c[1], c[2], c[3], TRUE)
    \/ \E op \in AdditiveOps, i \in 1..Len(heap), other \in HeapObjs \cup PlainOperands :
          ScalarOp(op, i, other)
    \/ \E op \in ScalingOps, i \in 1..Len(heap), other \in ScalarObjs \cup PlainOperands :
          ScalarOp(op, i, other)
    \/ \E i \in 1..Len(heap), item \in HeapObjs \cup {PyInt(2)} : ArrayAppend(i, item)

PacketSpec == Init /\ [][PacketNext]_vars

\* the op_name given to Factory.reallocate for the operators -, / and **
OperatorNames == {"__sub__", "__truediv__", "__pow__"} \cup ReflectedNames

\* a few Packets kept on the heap and an operator wrapped by
\* Factory.reallocate called on them
ReallocateNext ==
    \/ \E c \in KeptQuery : FactoryCreate(c[1], c[2], c[3], TRUE)
    \/ \E c \in KeptArray : NewArrayPacket(c[1], c[2], c[3], TRUE)
    \/ \E i \in 1..Len(heap),
          q2 \in {Ref(j) : j \in 1..Len(heap)} \cup PlainOperands : Reallocate(i, q2)
    \/ \E op_name \in OperatorNames, i \in 1..Len(heap),
          q2 \in {Ref(j) : j \in 1..Len(heap)} \cup PlainOperands :
          ReallocateNamed(op_name, i, q2)

ReallocateSpec == Init /\ [][ReallocateNext]_vars

\* the calls of Factory.create whose result is kept to be added and
\* multiplied in both orders
KeptCommute ==
    {<<PyInt(2), LENGTH, None>>, <<PyInt(-3), LENGTH, None>>,
     <<PyFloat(1, 2), LENGTH, None>>, <<OnePlusTwoJ, LENGTH, None>>,
     <<PyInt(2), TIME, None>>, <<PyFloat(1, 2), DIMENSIONLESS, None>>,
     <<PyInt(2), Unit(<<Dimension("LENGTH", PyInt(MAX_EXPONENT))>>), None>>}

\* a few scalar Packets kept on the heap, added and multiplied in both orders
CommuteNext ==
    \/ \E c \in KeptCommute : FactoryCreate(c[1], c[2], c[3], TRUE)
    \/ \E op \in {"add", "mul"}, i \in 1..Len(heap), j \in 1..Len(heap) :
          BothWays(op, i, j)

CommuteSpec == Init /\ [][CommuteNext]_vars

\* the calls of Factory.create whose result is kept to be displayed
KeptDisplay ==
    {<<v, LENGTH, None>> :
        v \in {PyInt(0), PyInt(1), PyInt(-3), PyInt(1000), PyInt(2000),
               PyFloat(1, 10), PyComplex(<<3, 1>>, <<4, 1>>)}}

\* the powers given to from_value
PowerRange == 27

PowerInputs == {PyInt(p) : p \in -PowerRange..PowerRange} \cup {PyFloat(2, 1)}

\* a few scalar Packets kept on the heap and displayed, and the prefix
\* lookups
DisplayNext ==
    \/ \E c \in KeptDisplay : FactoryCreate(c[1], c[2], c[3], TRUE)
    \/ \E i \in 1..Len(heap) : Normalize(i)
    \/ \E power \in PowerInputs : FromValue(power)

DisplaySpec == Init /\ [][DisplayNext]_vars

\* longest unit string made of the characters of ExpressionChars
MaxChars == 3

ExpressionChars == {"m", "s", "/", "^", "2", "U+00B2"}

\* 'm/s^2', 'kg*m/s^2', 'm*s^-2', 'm/sU+00B2', 'm/s/s', 'kg*m', '1/s', 'm 2',
\* 'm^22', 'mol/s', 'x' and 'm^2*s^3'
LongExpressions ==
    {<<"m", "/", "s", "^", "2">>,
     <<"k", "g", "*", "m", "/", "s", "^", "2">>,
     <<"m", "*", "s", "^", "-", "2">>,
     <<"m", "/", "s", "U+00B2">>,
     <<"m", "/", "s", "/", "s">>,
     <<"k", "g", "*", "m">>,
     <<"1", "/", "s">>,
     <<"m", " ", "2">>,
     <<"m", "^", "2", "2">>,
     <<"m", "o", "l", "/", "s">>,
     <<"x">>,
     <<"m", "^", "2", "*", "s", "^", "3">>}

UnitStrings == SeqsUpTo(ExpressionChars, MaxChars) \cup LongExpressions

\* the token lists handed over directly
TokenLists ==
    {<<<<"s">>, <<"^">>, <<"2">>>>, <<<<"m">>, <<"/">>, <<"s">>>>,
     <<<<"m">>, <<"U+00B2">>>>, <<>>, <<<<"m">>>>}

\* unit expressions handed to the constructor
ParseNext ==
    \/ \E unit_str \in UnitStrings : TokenizeUnit(unit_str)
    \/ \E tokens \in TokenLists : ConstructFromTokens(tokens)

ParseSpec == Init /\ [][ParseNext]_vars

\* longest text made of the characters of TextChars
MaxText == 3

TextChars == {"(", ")", "\\", "'", "a"}

\* "('(')", "(a)(a)", "((a))" and '("a")\\'
LongTexts ==
    {<<"(", "'", "(", "'", ")">>, <<"(", "a", ")", "(", "a", ")">>,
     <<"(", "(", "a", ")", ")">>, <<"(", "\"", "a", "\"", ")", "\\">>}

Texts == SeqsUpTo(TextChars, MaxText) \cup LongTexts

\* one call of extract_parent_groups at a time, run statement by statement
TokenizerNext ==
    \/ \E text \in Texts : ExtractParentGroups(text)
    \/ OuterLoop
    \/ InnerLoop
    \/ InnerBody
    \/ AfterInner

TokenizerSpec == Init /\ [][TokenizerNext]_vars

\* a call that has begun goes on executing its statements
TokenizerFairSpec ==
    /\ TokenizerSpec
    /\ WF_vars(OuterLoop) /\ WF_vars(InnerLoop) /\ WF_vars(InnerBody)
    /\ WF_vars(AfterInner)

\* the prefixed units given to conversion: lengths, areas and speeds
PrefixedUnits ==
    {units_Unit(<<units_Dimension(p, "METER", 1)>>) :
        p \in {"MILLI", "BASE", "KILO"}}
    \cup {units_Unit(<<units_Dimension(p, "METER", 2)>>) :
        p \in {"CENTI", "BASE", "DEKA"}}
    \cup {units_Unit(<<units_Dimension(p, "METER", 1),
                      units_Dimension(q, "SECOND", -1)>>) :
        p \in {"BASE", "KILO"}, q \in {"MILLI", "BASE"}}
    \cup {units_Unit(<<units_Dimension("BASE", "SECOND", -1),
                      units_Dimension("KILO", "METER", 1)>>),
          units_Unit(<<units_Dimension("KILO", "METER", 0)>>),
          units_Unit(<<units_Dimension("BASE", "DIMENSIONLESS", 1)>>)}

\* the numbers given to conversion
Magnitudes == {PyInt(5), PyFloat(3, 2), PyFloat(617, 5)}

\* conversions between prefixed units, and back
ConversionNext ==
    \/ \E m \in Magnitudes, old \in PrefixedUnits, new \in PrefixedUnits :
          Convert(m, old, new)
    \/ ConvertBack

ConversionSpec == Init /\ [][ConversionNext]_vars

\* the calls of ArrayPacket whose result is kept as a vector
KeptVectors ==
    {<<PyList(items), u, Prefix("BASE")>> :
        items \in {<<PyInt(0), PyInt(0)>>, <<PyInt(3), PyInt(4)>>, <<PyInt(0)>>,
                   <<PyInt(1), PyInt(0)>>},
        u \in {LENGTH, DIMENSIONLESS}}

\* a few vectors kept on the heap, their unit vectors and their angles
VectorNext ==
    \/ \E c \in KeptVectors : NewArrayPacket(c[1], c[2], c[3], TRUE)
    \/ \E i \in 1..Len(heap) : UnitVector(i)
    \/ \E i \in 1..Len(heap), j \in 1..Len(heap) : AngleBetween(i, j)

VectorSpec == Init /\ [][VectorNext]_vars

\* the Unit that Unit(Dimension(), Dimension()) returns
EmptyUnit == Unit(<<Dimension_dimensionless, Dimension_dimensionless>>)

\* the calls of Factory.create whose result is kept to be multiplied and
\* divided
KeptScaling ==
    {<<PyInt(2), LENGTH, None>>, <<PyInt(0), LENGTH, None>>,
     <<PyInt(0), DIMENSIONLESS, None>>, <<PyFloat(1, 2), DIMENSIONLESS, None>>,
     <<OnePlusTwoJ, DIMENSIONLESS, None>>, <<PyInt(2), EmptyUnit, None>>}

\* right operands of * and / that are no Packets: numbers and bare Units
ScalingOperands ==
    {PyInt(0), PyFloat(0, 1), PyComplex(<<0, 1>>, <<0, 1>>), PyInt(2),
     LENGTH, TIME, DIMENSIONLESS, EmptyUnit}

\* a few scalar Packets kept on the heap, multiplied and divided
ScalingNext ==
    \/ \E c \in KeptScaling : FactoryCreate(c[1], c[2], c[3], TRUE)
    \/ \E op \in {"mul", "imul", "truediv", "itruediv"}, i \in 1..Len(heap),
          other \in HeapObjs \cup ScalingOperands : ScalarOp(op, i, other)

ScalingSpec == Init /\ [][ScalingNext]_vars

\* a few Packets kept on the heap, their comparisons and their
\* transcendental functions
QueryNext ==
    \/ \E c \in KeptQuery : FactoryCreate(c[1], c[2], c[3], TRUE)
    \/ \E c \in KeptArray : NewArrayPacket(c[1], c[2], c[3], TRUE)
    \/ \E op \in OrderOps, i \in 1..Len(heap), other \in HeapObjs \cup PlainOperands :
          Order(op, i, other)
    \/ \E i \in 1..Len(heap), other \in HeapObjs \cup PlainOperands : Equal(i, other)
    \/ \E fn \in TransFns, i \in 1..Len(heap) : Transcendental(fn, i)

QuerySpec == Init /\ [][QueryNext]_vars

(***************************************************************************)
(* Vocabulary of the properties                                            *)
(***************************************************************************)
\* exponent of base b in Unit u, an absent base counting as 0
ExpOf(u, b) ==
    IF \E i \in 1..Len(u.dimensions) : u.dimensions[i].base = b
    THEN u.dimensions[CHOOSE i \in 1..Len(u.dimensions) :
                          u.dimensions[i].base = b].exponent
    ELSE 0

\* the (base, exponent) pairs of u over the seven SI bases
SIPairs(u) == {<<b, ExpOf(u, b)>> : b \in {c \in SIBases : ExpOf(u, c) # 0}}

\* at least one Dimension, one Dimension per base, dimensionless only alone
WellFormedUnit(u) ==
    /\ Len(u.dimensions) >= 1
    /\ \A i, j \in 1..Len(u.dimensions) :
          i # j => u.dimensions[i].base # u.dimensions[j].base
    /\ (\E i \in 1..Len(u.dimensions) : u.dimensions[i].base = "DIMENSIONLESS")
          => Len(u.dimensions) = 1

Reorderings(s) ==
    {[i \in 1..Len(s) |-> s[f[i]]] :
        f \in {g \in [1..Len(s) -> 1..Len(s)] :
                  \A i, j \in 1..Len(s) : i # j => g[i] # g[j]}}

DistinctBaseDimensions(s) ==
    /\ \A i \in 1..Len(s) : s[i].k = "Dimension"
    /\ \A i, j \in 1..Len(s) : i # j => s[i].base # s[j].base

\* round(n / d) of Python 3: to the nearest integer, a tie to the even one
RoundRat(n, d) ==
    LET fl == n \div d
        r2 == 2 * (n - fl * d)
    IN  IF r2 < d THEN fl
        ELSE IF r2 > d THEN fl + 1
        ELSE IF fl % 2 = 0 THEN fl ELSE fl + 1

UnitResultOps == {"Unit", "mul", "truediv", "pow"}

(***************************************************************************)
(* C2: every Unit returned by a construction, multiplication, division or  *)
(* power holds at least one Dimension, at most one Dimension per base, and *)
(* the dimensionless Dimension only as its sole member; a result in which  *)
(* every exponent has cancelled is the single dimensionless Unit.          *)
(***************************************************************************)
C2_ReturnedUnitWellFormed ==
    (last.op \in UnitResultOps /\ IsUnit(last.res)) =>
        /\ WellFormedUnit(last.res)
        /\ SIPairs(last.res) = {} => Unit___eq__(last.res, DIMENSIONLESS)

(***************************************************************************)
(* C3: the Units constructed from a list of Dimensions with pairwise       *)
(* distinct bases and from any reordering of it are equal and have equal   *)
(* hashes (so a dict entry stored under one is found under the other), and *)
(* two Units whose sets of (base, exponent) pairs differ compare unequal.  *)
(***************************************************************************)
C3_OrderIndependentIdentity ==
    /\ (last.op = "Unit" /\ DistinctBaseDimensions(last.arg.items)) =>
          \A q \in Reorderings(last.arg.items) :
              /\ IsUnit(last.res) /\ IsUnit(Unit(q))
              /\ Unit___eq__(last.res, Unit(q))
              /\ Unit___eq__(Unit(q), last.res)
              /\ Unit___hash__(last.res) = Unit___hash__(Unit(q))
    /\ (last.op = "eq" /\
          {<<d.base, d.exponent>> : d \in {last.self.dimensions[i] :
                                             i \in 1..Len(last.self.dimensions)}}
        # {<<d.base, d.exponent>> : d \in {last.arg.dimensions[i] :
                                             i \in 1..Len(last.arg.dimensions)}})
          => last.res.v = FALSE

\* Unit(TIME^-1, LENGTH^e) was built: its arguments are not in display order
C3_Witness ==
    /\ last.op = "Unit"
    /\ Len(last.arg.items) = 2
    /\ DistinctBaseDimensions(last.arg.items)
    /\ _ORDER[last.arg.items[1].base] > _ORDER[last.arg.items[2].base]
    /\ IsUnit(last.res)
    /\ Len(last.res.dimensions) = 2

(***************************************************************************)
(* C4                                                                      *)
(***************************************************************************)
\* some base's exponent of self * other (or self / other) leaves the limit
ExponentOverflow(self, other, division) ==
    \E b \in SIBases :
        Abs(ExpOf(self, b) + (IF division THEN -1 ELSE 1) * ExpOf(other, b))
            > MAX_EXPONENT

MergedExponents(self, other, division, res) ==
    /\ \A b \in SIBases :
          ExpOf(res, b) = ExpOf(self, b)
                            + (IF division THEN -1 ELSE 1) * ExpOf(other, b)
    /\ \A i \in 1..Len(res.dimensions) : res.dimensions[i].exponent # 0
    /\ (\A b \in SIBases : ExpOf(res, b) = 0) => res = DIMENSIONLESS
    /\ (\E b \in SIBases : ExpOf(res, b) # 0) =>
          \A i \in 1..Len(res.dimensions) :
              res.dimensions[i].base # "DIMENSIONLESS"

\* C5 as stated: for any Units U1, U2 and every base b the exponent of b in
\* U1*U2 is e1(b)+e2(b) and in U1/U2 is e1(b)-e2(b); a base with exponent 0 is
\* absent, and the result is the dimensionless Unit when no base remains.
C5_ExponentsMerge ==
    (last.op \in {"mul", "truediv"} /\ IsUnit(last.arg)) =>
        /\ IsUnit(last.res)
        /\ MergedExponents(last.self, last.arg, last.op = "truediv", last.res)

\* C5 amended: the same, provided every resulting exponent is within
\* +/-MAX_EXPONENT; when one is not, the operation raises ValueError and
\* returns no Unit.
C5_ExponentsMergeWithinLimit ==
    (last.op \in {"mul", "truediv"} /\ IsUnit(last.arg)) =>
        IF ExponentOverflow(last.self, last.arg, last.op = "truediv")
        THEN last.res = Raise("ValueError")
        ELSE /\ IsUnit(last.res)
             /\ MergedExponents(last.self, last.arg, last.op = "truediv", last.res)

\* LENGTH * LENGTH^-1 == DIMENSIONLESS was computed
C5_Witness ==
    /\ last.op = "mul" /\ IsUnit(last.arg)
    /\ ExpOf(last.self, "LENGTH") = 1
    /\ ExpOf(last.arg, "LENGTH") = -1
    /\ last.res = DIMENSIONLESS

(***************************************************************************)
(* C7: for any Unit U and real number n, U ** n returns the Unit whose     *)
(* exponent for every base is U's exponent multiplied by n and rounded to  *)
(* the nearest integer.                                                    *)
(***************************************************************************)
C7_PowScalesExponents ==
    (last.op = "pow" /\ IsReal(last.arg)) =>
        /\ IsUnit(last.res)
        /\ \A b \in SIBases :
              ExpOf(last.res, b) =
                  RoundRat(ExpOf(last.self, b) * last.arg.n, last.arg.d)

(***************************************************************************)
(* Vocabulary of the Packet properties                                     *)
(***************************************************************************)
\* the right operand as the Packet the operator works on, if it becomes one
OperandPacket(op, other) ==
    IF op \in {"mul", "imul", "truediv", "itruediv"} THEN BridgeOperand(other)
    ELSE _get_other_packet(other)

\* q holds what its class promises: a valid Unit and a payload of its type
FullyFormed(q) ==
    /\ IsUnit(q.unit)
    /\ CASE q.cls = "RealPacket" -> IsReal(q.value)
         [] q.cls = "ComplexPacket" -> q.value.k = "complex"
         [] q.cls = "ArrayPacket" ->
               /\ q.value.k = "ndarray"
               /\ \A i \in 1..Len(q.value.items) : IsReal(q.value.items[i])

\* the prefix a constructor call works with
GivenPrefix(args) == IF args.prefix = None THEN Prefix("BASE") ELSE args.prefix

\* q holds the scalar payload of the call rebased from the call's prefix
RebasedScalar(q, args) ==
    (q.cls \in {"RealPacket", "ComplexPacket"} /\ IsNumber(args.value)) =>
        q.value = ScaleToBase(args.value, GivenPrefix(args))

CtorOps == {"Factory.create", "RealPacket", "ComplexPacket", "ArrayPacket"}

(***************************************************************************)
(* C1: for two Packets a and b, a + b and a - b (and += and -=) raise the  *)
(* unit-mismatch ValueError when a.unit != b.unit, and return a Packet     *)
(* carrying a.unit when a.unit == b.unit.                                  *)
(***************************************************************************)
C1_AddSubUnitContract ==
    (plast.op \in AdditiveOps /\ IsPacket(plast.arg)) =>
        IF Unit___eq__(plast.self.unit, plast.arg.unit)
        THEN IsPacket(plast.res) /\ Unit___eq__(plast.res.unit, plast.self.unit)
        ELSE plast.res = Raise("ValueError")

(***************************************************************************)
(* C6: a ** n, for a Packet a and an exponent n that is (or converts to) a *)
(* dimensionless Packet of value 0, returns a Packet of value 1.0 with the *)
(* dimensionless Unit.                                                     *)
(***************************************************************************)
C6_ZeroPowerIsOne ==
    (/\ plast.op = "pow"
     /\ IsPacket(OperandPacket("pow", plast.arg))
     /\ Unit___eq__(OperandPacket("pow", plast.arg).unit, DIMENSIONLESS)
     /\ NumIsZero(OperandPacket("pow", plast.arg).value)) =>
        /\ IsPacket(plast.res)
        /\ plast.res.value = PyFloat(1, 1)
        /\ Unit___eq__(plast.res.unit, DIMENSIONLESS)

(***************************************************************************)
(* C8: no step changes the value or the unit of a Packet that exists       *)
(* already; the objects on the heap only ever gain new neighbours.         *)
(***************************************************************************)
C8_PacketsImmutable ==
    [][\A i \in 1..Len(heap) : i <= Len(heap') /\ heap'[i] = heap[i]]_vars

(***************************************************************************)
(* C9: whatever a constructor or Factory.create returns is fully formed: a *)
(* RealPacket holds an int or a float, a ComplexPacket a complex, an       *)
(* ArrayPacket an ndarray of real numbers, each a valid Unit, and a scalar *)
(* payload is the given value rebased from the given prefix.               *)
(***************************************************************************)
C9_ReturnedPacketFullyFormed ==
    (plast.op \in CtorOps /\ IsPacket(plast.res)) =>
        /\ FullyFormed(plast.res)
        /\ RebasedScalar(plast.res, plast.arg)

(***************************************************************************)
(* C10: with a valid unit and prefix, Factory.create returns a RealPacket  *)
(* for an int or float, a ComplexPacket for a complex and an ArrayPacket   *)
(* for a sequence; for every other value it raises TypeError.              *)
(***************************************************************************)
C10_FactoryDispatch ==
    (/\ plast.op = "Factory.create"
     /\ IsUnit(plast.arg.unit)
     /\ IsPrefixScale(GivenPrefix(plast.arg))) =>
        CASE IsReal(plast.arg.value) ->
                IsPacket(plast.res) /\ plast.res.cls = "RealPacket"
          [] plast.arg.value.k = "complex" ->
                IsPacket(plast.res) /\ plast.res.cls = "ComplexPacket"
          [] plast.arg.value.k \in {"list", "tuple", "ndarray"} ->
                IsPacket(plast.res) /\ plast.res.cls = "ArrayPacket"
          [] OTHER -> plast.res = Raise("TypeError")

(***************************************************************************)
(* C11: Factory.create(v, unit, p) for a real or complex v and a           *)
(* PrefixScale p returns a Packet that stores v * 10^(decade of p) with    *)
(* the given unit and keeps no record of p.                                *)
(***************************************************************************)
\* 10^e as a rational
Pow10(e) == IF e >= 0 THEN <<10 ^ e, 1>> ELSE <<1, 10 ^ (-e)>>

C11_PrefixAppliedOnce ==
    (/\ plast.op = "Factory.create"
     /\ IsNumber(plast.arg.value)
     /\ IsUnit(plast.arg.unit)
     /\ IsPrefixScale(GivenPrefix(plast.arg))) =>
        /\ IsPacket(plast.res)
        /\ Re(plast.res.value)
             = RMul(Re(plast.arg.value), Pow10(GivenPrefix(plast.arg).value))
        /\ Im(plast.res.value)
             = RMul(Im(plast.arg.value), Pow10(GivenPrefix(plast.arg).value))
        /\ plast.res.unit = plast.arg.unit
        /\ DOMAIN plast.res = {"k", "cls", "value", "unit"}

\* a complex value was built with a prefix below BASE
C11_Witness ==
    /\ plast.op = "Factory.create"
    /\ plast.arg.value = OnePlusTwoJ
    /\ plast.arg.prefix = Prefix("CENTI")
    /\ IsPacket(plast.res)
    /\ plast.res.value = PyComplex(<<1, 100>>, <<1, 50>>)

(***************************************************************************)
(* C12                                                                     *)
(***************************************************************************)
\* two of the Dimensions in s share a base that is in bases
SharedBase(s, bases) ==
    \E i, j \in 1..Len(s) : i < j /\ s[i].base = s[j].base /\ s[i].base \in bases

AllDimensions(s) == \A i \in 1..Len(s) : s[i].k = "Dimension"

\* C12 as stated: Unit(...) of Dimensions of which two share a base raises
\* and yields no Unit.
C12_DuplicateBaseRaises ==
    (last.op = "Unit" /\ AllDimensions(last.arg.items)
        /\ SharedBase(last.arg.items, FBase)) => IsRaise(last.res)

\* C12 amended: Unit(...) of Dimensions of which two share a base other than
\* DIMENSIONLESS raises ValueError, whether their exponents are equal or
\* not; Dimensions of base DIMENSIONLESS may repeat and are dropped.
C12_DuplicateSIBaseRaises ==
    (last.op = "Unit" /\ AllDimensions(last.arg.items)) =>
        /\ SharedBase(last.arg.items, SIBases) => last.res = Raise("ValueError")
        /\ ~SharedBase(last.arg.items, SIBases) => IsUnit(last.res)

\* Unit(LENGTH^a, LENGTH^b) with a # b was rejected
C12_Witness ==
    /\ last.op = "Unit" /\ Len(last.arg.items) = 2
    /\ AllDimensions(last.arg.items)
    /\ last.arg.items[1].base = "LENGTH" /\ last.arg.items[2].base = "LENGTH"
    /\ last.arg.items[1].exponent # last.arg.items[2].exponent
    /\ last.res = Raise("ValueError")

(***************************************************************************)
(* C13: Dimension(b, 0) is Dimension(DIMENSIONLESS, 1) for every base b;   *)
(* every Dimension that is constructed has a non-zero exponent, and has    *)
(* exponent 1 when its base is DIMENSIONLESS.                              *)
(***************************************************************************)
C13_DimensionCanonical ==
    last.op = "Dimension" =>
        /\ (last.arg.base \in FBase /\ last.arg.exponent = PyInt(0)) =>
              last.res = Dimension("DIMENSIONLESS", PyInt(1))
        /\ ~IsRaise(last.res) =>
              /\ last.res.exponent # 0
              /\ last.res.base = "DIMENSIONLESS" => last.res.exponent = 1

\* Dimension(MASS, 0) was constructed
C13_Witness ==
    /\ last.op = "Dimension"
    /\ last.arg.base = "MASS" /\ last.arg.exponent = PyInt(0)
    /\ last.res = Dim("DIMENSIONLESS", 1)

(***************************************************************************)
(* C14: <, <=, > and >= with a ComplexPacket or a Vector Packet on the     *)
(* left raise the unorderable TypeError for every right operand, whether   *)
(* or not the units are equal.                                             *)
(***************************************************************************)
C14_NoOrderOnComplexOrVector ==
    (plast.op \in OrderOps /\ plast.self.cls \in {"ComplexPacket", "ArrayPacket"}) =>
        plast.res = Raise("TypeError")

\* an ArrayPacket was compared with a Packet of its own unit
C14_Witness ==
    /\ plast.op \in OrderOps
    /\ plast.self.cls = "ArrayPacket"
    /\ IsPacket(plast.arg)
    /\ plast.arg.unit = plast.self.unit
    /\ IsRaise(plast.res)

(***************************************************************************)
(* C15: between two real Packets an ordering comparison raises the         *)
(* unit-mismatch ValueError when the units differ and otherwise returns    *)
(* the comparison of the stored values; == is False when the units differ  *)
(* and otherwise the equality of the stored values.                        *)
(***************************************************************************)
\* a RealPacket holding an int or a float
IsRealPacket(q) == IsPacket(q) /\ q.cls = "RealPacket" /\ IsReal(q.value)

C15_RealComparisonsCheckUnits ==
    (IsRealPacket(plast.self) /\ IsRealPacket(plast.arg)) =>
        /\ plast.op \in OrderOps =>
              IF plast.self.unit # plast.arg.unit
              THEN plast.res = Raise("ValueError")
              ELSE plast.res = PyBool(RealOrder(plast.op, plast.self.value,
                                                plast.arg.value))
        /\ plast.op = "eq" =>
              IF plast.self.unit # plast.arg.unit
              THEN plast.res = PyBool(FALSE)
              ELSE plast.res = PyBool(Re(plast.self.value) = Re(plast.arg.value))

\* 2 m < 2 km was evaluated to True
C15_Witness ==
    /\ plast.op = "lt"
    /\ IsRealPacket(plast.self) /\ IsRealPacket(plast.arg)
    /\ plast.self.unit = plast.arg.unit
    /\ plast.self.value # plast.arg.value
    /\ plast.res = PyBool(TRUE)

(***************************************************************************)
(* C16: a transcendental function of a real Packet raises when the unit of *)
(* the operand is not dimensionless, and returns a Packet when the operand *)
(* is dimensionless and inside the domain of the function.                 *)
(***************************************************************************)
\* the real number v lies in the mathematical domain of fn
InDomain(fn, v) ==
    CASE fn \in InverseFns -> ~RLess(Re(v), <<-1, 1>>) /\ ~RLess(<<1, 1>>, Re(v))
      [] fn \in LogFns -> RLess(<<0, 1>>, Re(v))
      [] fn = "acot" -> v.n # 0
      [] OTHER -> TRUE

C16_TranscendentalOfDimensionless ==
    plast.op \in TransFns =>
        IF Unit___eq__(plast.self.unit, DIMENSIONLESS)
        THEN InDomain(plast.op, plast.self.value) => IsPacket(plast.res)
        ELSE IsRaise(plast.res)

(***************************************************************************)
(* C17: a transcendental function of a dimensionless real Packet whose     *)
(* value is outside the domain of the function fails with the domain error *)
(* of the function: asin outside [-1, 1], a logarithm of a value <= 0,     *)
(* acot of 0.                                                              *)
(***************************************************************************)
C17_OutOfDomainRaisesDomainError ==
    (/\ plast.op \in TransFns
     /\ Unit___eq__(plast.self.unit, DIMENSIONLESS)
     /\ ~InDomain(plast.op, plast.self.value)) =>
        plast.res \in {Raise("ValueError"), Raise("ZeroDivisionError")}

(***************************************************************************)
(* C18: a scalar Packet divided by a scalar Packet or a plain number whose *)
(* value is zero raises the division-by-zero error of true_division_logic  *)
(* and returns no Packet, whatever the units of the two operands.          *)
(***************************************************************************)
\* x is a plain number or a scalar Packet, and its value is zero
ZeroDivisor(x) ==
    \/ IsNumber(x) /\ NumIsZero(x)
    \/ IsPacket(x) /\ Category(x) = "ScalarPacket" /\ NumIsZero(x.value)

C18_DivisionByZeroRaises ==
    (plast.op \in {"truediv", "itruediv"} /\ ZeroDivisor(plast.arg)) =>
        plast.res = Raise("ValueError")

\* 2 m divided by 0 m, and 1+2j divided by the float 0.0
C18_Witness ==
    /\ plast.op = "truediv"
    /\ plast.res = Raise("ValueError")
    /\ \/ /\ plast.self.unit = LENGTH
          /\ plast.self.value = PyInt(2)
          /\ IsPacket(plast.arg)
          /\ plast.arg.unit = LENGTH
          /\ plast.arg.value = PyInt(0)
       \/ /\ plast.self.value = OnePlusTwoJ
          /\ plast.arg = PyFloat(0, 1)

(***************************************************************************)
(* C19: an operator wrapped by Factory.reallocate, called on operands of   *)
(* different categories, is invoked on the operand whose category has the  *)
(* higher priority (Vector above Scalar) with the other operand as its     *)
(* argument, on whichever side that operand was; different categories      *)
(* never have the same priority; on operands of the same category the      *)
(* wrapped method runs on (q1, q2).                                        *)
(***************************************************************************)
\* the category of the operand r of the recorded call
CategoryOf(r) == Parents(Deref(heap, r))

\* a and b in the order (higher priority, lower priority)
ByPriority(a, b) ==
    IF PriorityGet(CategoryOf(a)) > PriorityGet(CategoryOf(b))
    THEN <<a, b>> ELSE <<b, a>>

C19_ReallocateByPriority ==
    /\ DOMAIN_PRIORITY.VectorPacket > DOMAIN_PRIORITY.ScalarPacket
    /\ plast.op = "reallocate" =>
          IF CategoryOf(plast.self) = CategoryOf(plast.arg)
          THEN plast.res = Invoke("method", plast.self, plast.arg)
          ELSE /\ PriorityGet(CategoryOf(plast.self)) #
                     PriorityGet(CategoryOf(plast.arg))
               /\ plast.res = Invoke("op_name",
                                     ByPriority(plast.self, plast.arg)[1],
                                     ByPriority(plast.self, plast.arg)[2])
               /\ wrapper(heap, plast.arg, plast.self).receiver =
                     plast.res.receiver

\* a scalar on the left of a vector: the operator is invoked on the vector
C19_Witness ==
    /\ plast.op = "reallocate"
    /\ plast.arg.k = "ref"
    /\ CategoryOf(plast.self) = "ScalarPacket"
    /\ CategoryOf(plast.arg) = "VectorPacket"
    /\ plast.res = Invoke("op_name", plast.arg, plast.self)

(***************************************************************************)
(* C20: a dimensionless Packet p multiplied by a bare Unit U returns a     *)
(* Packet whose value is the value of p and whose unit is exactly U.       *)
(***************************************************************************)
C20_UnitBridge ==
    (/\ plast.op \in {"mul", "imul"}
     /\ IsUnit(plast.arg)
     /\ Unit___eq__(plast.self.unit, DIMENSIONLESS)) =>
        /\ IsPacket(plast.res)
        /\ plast.res.value = plast.self.value
        /\ Unit___eq__(plast.res.unit, plast.arg)

(***************************************************************************)
(* C21: for two scalar Packets a and b, a*b == b*a (both Packets, equal by *)
(* the == of Packets, or both raise); for two scalar Packets with equal    *)
(* units, a+b == b+a.                                                      *)
(***************************************************************************)
\* x and y are both exceptions, or Packets that compare equal
SameOutcome(x, y) ==
    IF IsRaise(x) \/ IsRaise(y) THEN IsRaise(x) /\ IsRaise(y)
    ELSE /\ IsPacket(x)
         /\ IsPacket(y)
         /\ ScalarPacket___eq__(x, y) = PyBool(TRUE)
         /\ x.cls = y.cls

C21_Commutativity ==
    /\ plast.op = "mul" /\ plast.res.k = "pair" =>
          SameOutcome(plast.res.ab, plast.res.ba)
    /\ (/\ plast.op = "add"
        /\ plast.res.k = "pair"
        /\ Unit___eq__(plast.self.unit, plast.arg.unit)) =>
          /\ IsPacket(plast.res.ab)
          /\ SameOutcome(plast.res.ab, plast.res.ba)

\* 2 m * (1+2j) m = (2+4j) m^2 both ways, and 2 m + 0.5 m = 2.5 m both ways
C21_Witness ==
    /\ plast.res.k = "pair"
    /\ plast.self # plast.arg
    /\ \/ /\ plast.op = "mul"
          /\ plast.self.value = PyInt(2)
          /\ plast.arg.value = OnePlusTwoJ
          /\ IsPacket(plast.res.ba)
          /\ plast.res.ba.value = PyComplex(<<2, 1>>, <<4, 1>>)
       \/ /\ plast.op = "add"
          /\ plast.self.value = PyInt(2)
          /\ plast.arg.value = PyFloat(1, 2)
          /\ IsPacket(plast.res.ba)
          /\ plast.res.ba.value = PyFloat(5, 2)

(***************************************************************************)
(* C22: for a non-zero real Packet value v, display normalization takes    *)
(* power = floor(log10(|v|)), lowers it by 1 only when v / 10^power is     *)
(* below 1, selects the PrefixScale nearest to that power and returns v    *)
(* divided by 10 to the decade of that PrefixScale together with it; a     *)
(* value that is 10^k for a member decade k is shown as 1 with the prefix  *)
(* of decade k.                                                            *)
(***************************************************************************)
\* floor(log10(x)) for a rational x > 0
FloorLog10(x) ==
    IF x[1] >= x[2]
    THEN CHOOSE p \in Log10Range :
            10 ^ p * x[2] <= x[1] /\ x[1] < 10 ^ (p + 1) * x[2]
    ELSE -(CHOOSE p \in Log10Range :
            x[1] * 10 ^ p < x[2] /\ x[2] <= x[1] * 10 ^ (p + 1)) - 1

\* the members at the least distance from power
Nearest(power) ==
    {n \in DOMAIN PrefixScale :
        \A m \in DOMAIN PrefixScale :
            Abs(PrefixScale[n] - power) <= Abs(PrefixScale[m] - power)}

C22_DisplayNormalization ==
    (/\ plast.op = "_normalize"
     /\ IsRealPacket(plast.self)
     /\ ~NumIsZero(plast.self.value)) =>
        LET v == Re(plast.self.value)
            power == FloorLog10(<<Abs(v[1]), v[2]>>)
        IN  /\ plast.res.prefix.name \in Nearest(power)
            /\ Re(plast.res.value) = RDiv(v, Pow10(plast.res.prefix.value))

(***************************************************************************)
(* C23: for an integer power, PrefixScale.from_value(power) returns a      *)
(* member whose decade is at the least distance from power among all       *)
(* members, the one with the smaller decade when two members are equally   *)
(* distant, and the scan visits each member at most once.                  *)
(***************************************************************************)
C23_NearestPrefix ==
    (plast.op = "from_value" /\ plast.arg.k = "int") =>
        /\ ~IsRaise(plast.res)
        /\ plast.res.closest_member.name \in Nearest(plast.arg.n)
        /\ \A n \in Nearest(plast.arg.n) :
              plast.res.closest_member.value <= PrefixScale[n]
        /\ plast.res.closest_member =
              Prefix(plast.res.closest_member.name)
        /\ plast.res.visits <= Len(_member_names_)

\* from_value(5) is MEGA after the scan has passed KILO, and from_value(-27)
\* is YOCTO after all members
C23_Witness ==
    /\ plast.op = "from_value"
    /\ \/ /\ plast.arg = PyInt(5)
          /\ plast.res.closest_member = Prefix("MEGA")
          /\ plast.res.visits = Len(_member_names_)
       \/ /\ plast.arg = PyInt(-PowerRange)
          /\ plast.res.closest_member = Prefix("YOCTO")

(***************************************************************************)
(* C24: a value converted from a unit written with prefix A to the same    *)
(* unit written with prefix B and back to prefix A is the original value:  *)
(* the factor of a conversion is the product over the dimensions of        *)
(* 10^((old prefix decade - new prefix decade) * exponent), and the        *)
(* factors of the two directions multiply to 1.                            *)
(***************************************************************************)
\* the decade of the prefix that unit writes for the dimension (base, exponent)
DecadeOf(unit, key) == PrefixScale[Lookup(unit, key).prefix]

\* the sum over the dimensions of old of
\* (old prefix decade - new prefix decade) * exponent
RECURSIVE TotalDecades(_, _, _)
TotalDecades(old, new, keys) ==
    IF keys = {} THEN 0
    ELSE LET key == CHOOSE x \in keys : TRUE
         IN  (DecadeOf(old, key) - DecadeOf(new, key)) * key[2]
                + TotalDecades(old, new, keys \ {key})

\* the two-way factor statement for the units of the recorded conversion
FactorStatement(old, new) ==
    /\ Re(_computes_scale(old, new, 1)) =
          Pow10(TotalDecades(old, new, LookupKeys(old)))
    /\ RMul(Re(_computes_scale(old, new, 1)),
            Re(_computes_scale(new, old, 1))) = <<1, 1>>

InputValue(item) == IF IsPacket(item) THEN item.value ELSE item

C25_ArrayScaledOnce ==
    (/\ plast.op \in CtorOps
     /\ plast.arg.value.k = "list"
     /\ IsPacket(plast.res)
     /\ plast.res.cls = "ArrayPacket") =>
        /\ Len(plast.res.value.items) = Len(plast.arg.value.items)
        /\ \A i \in 1..Len(plast.arg.value.items) :
              Re(plast.res.value.items[i]) =
                 RMul(Re(InputValue(plast.arg.value.items[i])),
                      Pow10(GivenPrefix(plast.arg).value))

(***************************************************************************)
(* C26: normalize/unit_vector and angle_between raise their zero-magnitude *)
(* error whenever a vector operand has magnitude zero, for every unit the  *)
(* vector carries, and never go on to divide by the zero magnitude.        *)
(***************************************************************************)
\* every element of the vector q is zero
ZeroVector(q) == \A i \in 1..Len(q.value.items) : NumIsZero(q.value.items[i])

C26_ZeroMagnitudeRaises ==
    /\ (plast.op = "unit_vector" /\ ZeroVector(plast.self)) =>
          plast.res = ZeroMagnitudeError("unit_vector")
    /\ (/\ plast.op = "angle_between"
        /\ plast.self.unit = plast.arg.unit
        /\ ZeroVector(plast.self) \/ ZeroVector(plast.arg)) =>
          plast.res = ZeroMagnitudeError("angle_between")

(***************************************************************************)
(* C27: a transcendental function f of a dimensionless real Packet of      *)
(* value v is evaluated at the signed value: the value of the result is    *)
(* f(v), so that the results for v and -v differ wherever f(v) and f(-v)   *)
(* differ.                                                                 *)
(***************************************************************************)
C27_EvaluatedAtSignedValue ==
    (/\ plast.op \in TransFns
     /\ Unit___eq__(plast.self.unit, DIMENSIONLESS)
     /\ InDomain(plast.op, plast.self.value)) =>
        /\ IsPacket(plast.res)
        /\ plast.res.value.fn = plast.op
        /\ plast.res.value.x = plast.self.value

(***************************************************************************)
(* C28: an operator dispatched through Factory.reallocate keeps the roles  *)
(* of its operands: for subtraction, division and power the result of      *)
(* q1 op q2 is computed with q1 as the left and q2 as the right operand,   *)
(* also when the category of q2 has the higher priority.                   *)
(***************************************************************************)
C28_ReallocateKeepsRoles ==
    (plast.op \in {"__sub__", "__truediv__", "__pow__"}
        /\ plast.res.k = "operands") =>
        /\ plast.res.left = plast.self
        /\ plast.res.right = plast.arg

\* the bases and exponents written in a token list of the form
\* base [^n | superscript] { (* | /) base [^n | superscript] }
RECURSIVE Written(_, _, _, _)
Written(tokens, i, sign, dims) ==
    LET caret == /\ i + 2 <= Len(tokens)
                 /\ tokens[i + 1] = <<"^">>
                 /\ ~IsRaise(int(tokens[i + 2]))
        super == /\ i + 1 <= Len(tokens)
                 /\ Len(tokens[i + 1]) = 1
                 /\ tokens[i + 1][1] \in DOMAIN SUPERSCRIPT_MAP
        power == IF caret THEN int(tokens[i + 2]).n
                 ELSE IF super THEN SUPERSCRIPT_MAP[tokens[i + 1][1]]
                 ELSE 1
        next  == IF caret THEN i + 3 ELSE IF super THEN i + 2 ELSE i + 1
        more  == Append(dims, Dim(FBase_from_symbol(tokens[i]).name, sign * power))
    IN  IF i > Len(tokens) \/ FBase_from_symbol(tokens[i]) = None
        THEN [ok |-> FALSE, dims |-> dims]
        ELSE IF next > Len(tokens) THEN [ok |-> TRUE, dims |-> more]
        ELSE IF tokens[next] = <<"*">> THEN Written(tokens, next + 1, 1, more)
        ELSE IF tokens[next] = <<"/">> THEN Written(tokens, next + 1, -1, more)
        ELSE [ok |-> FALSE, dims |-> dims]

\* an expression of the claimed form whose bases are distinct SI bases with
\* exponents a Dimension can hold
WellWritten(w) ==
    /\ w.ok
    /\ \A i \in 1..Len(w.dims) :
          /\ w.dims[i].base # "DIMENSIONLESS"
          /\ w.dims[i].exponent # 0
          /\ Abs(w.dims[i].exponent) <= MAX_EXPONENT
          /\ \A j \in 1..Len(w.dims) : w.dims[j].base = w.dims[i].base => i = j

TokensOf(call) ==
    IF call.op = "_tokenize_unit" THEN split(call.arg.s, 1, <<>>, <<>>)
    ELSE call.arg.items

\* C29: the Unit constructed from a unit expression of base symbols joined
\* by * and / with optional integer powers (^n or a superscript) has, for
\* each base, the exponent written for it, negated after a /
C29_UnitFromExpression ==
    plast.op \in {"_tokenize_unit", "_construct_from_tokenized_unit"} =>
        LET w == Written(TokensOf(plast), 1, 1, <<>>)
        IN  WellWritten(w) => plast.res = Unit(w.dims)

\* expressions without a power are built as written
C29_WithoutPowers ==
    plast.op \in {"_tokenize_unit", "_construct_from_tokenized_unit"} =>
        LET w == Written(TokensOf(plast), 1, 1, <<>>)
        IN  (WellWritten(w) /\ \A i \in 1..Len(w.dims) : Abs(w.dims[i].exponent) = 1)
                => plast.res = Unit(w.dims)

\* C30: extract_parent_groups terminates on every text: a call that has begun
\* ends, by falling off the end of the scan or by raising ParserError
C30_ExtractParentGroupsTerminates ==
    (plast.op = "extract_parent_groups") ~> Ended

EscapeFree(text) == \A i \in 1..Len(text) : text[i] # "\\"

\* a call on a text without a backslash ends
C30_EscapeFreeTerminates ==
    (plast.op = "extract_parent_groups" /\ EscapeFree(plast.arg.s)) ~> Ended

====
